---- MODULE Spec2Model ----
(***************************************************************************)
(* Model of the second_opinion analysis pipeline: the matching engine      *)
(* (app/matcher.py), the unknowns detector (app/unknowns.py), the ruled-   *)
(* out lookup (app/ruled_out.py) and the report assembler (app/report.py). *)
(*                                                                         *)
(* A Python str is a sequence of one-character strings, so that lower(),   *)
(* strip(), split(), slicing, the `in` operator and the word-boundary      *)
(* regular expressions of the matcher are computed character by character. *)
(* Scores are kept in tenths (0.5 is 5, 0.3 is 3, 1 is 10).                *)
(***************************************************************************)
EXTENDS Integers, Sequences, FiniteSets, TLC

\* ------------------------------------------------------------------------
\* Bounds of the explored inputs
\* ------------------------------------------------------------------------
MaxSections == 2
MaxPatterns == 2
MaxAssumptions == 2
MaxRuns == 2
MaxMatches == 3
MaxLibrary == 4
MaxRetries == 3
MaxListed == 6
MaxChunks == 3

\* ------------------------------------------------------------------------
\* Python str primitives
\* ------------------------------------------------------------------------
Min(S) == CHOOSE m \in S : \A n \in S : m <= n

MinOf(a, b) == IF a <= b THEN a ELSE b

MaxOf(a, b) == IF a >= b THEN a ELSE b

\* a list built by a comprehension, as a sequence value
ListOf(f) == f \o <<>>

\* str.isspace() characters that occur in the modelled texts
Whitespace == {" ", "\n", "\t"}

\* characters matched by \w
WordChars ==
    {"a", "b", "c", "d", "e", "f", "g", "h", "i", "j", "k", "l", "m",
     "n", "o", "p", "q", "r", "s", "t", "u", "v", "w", "x", "y", "z",
     "A", "B", "C", "D", "E", "F", "G", "H", "I", "J", "K", "L", "M",
     "N", "O", "P", "Q", "R", "S", "T", "U", "V", "W", "X", "Y", "Z",
     "0", "1", "2", "3", "4", "5", "6", "7", "8", "9", "_"}

LowerOf ==
    [A |-> "a", B |-> "b", C |-> "c", D |-> "d", E |-> "e", F |-> "f",
     G |-> "g", H |-> "h", I |-> "i", J |-> "j", K |-> "k", L |-> "l",
     M |-> "m", N |-> "n", O |-> "o", P |-> "p", Q |-> "q", R |-> "r",
     S |-> "s", T |-> "t", U |-> "u", V |-> "v", W |-> "w", X |-> "x",
     Y |-> "y", Z |-> "z"]

LowerChar(c) == IF c \in DOMAIN LowerOf THEN LowerOf[c] ELSE c

\* str.lower(), over the characters of the modelled texts: each of them
\* lowercases to one character, so the lengths of the texts are kept
Lower(s) == ListOf([i \in 1..Len(s) |-> LowerChar(s[i])])

\* s[a:b] with 0 <= a, b already clipped by the caller as in the source
Slice(s, a, b) == SubSeq(s, a + 1, MinOf(b, Len(s)))

\* sub occurs in s at offset i (0-based); sub is not empty
OccursAt(s, sub, i) ==
    /\ s[i + 1] = sub[1]
    /\ SubSeq(s, i + 1, i + Len(sub)) = sub

\* `sub in s`
Contains(s, sub) ==
    \/ sub = <<>>
    \/ \E i \in 1..(Len(s) - Len(sub) + 1) :
           s[i] = sub[1] /\ SubSeq(s, i, i + Len(sub) - 1) = sub

\* s.find(sub): lowest index, -1 when absent
Find(s, sub) ==
    IF sub = <<>> THEN 0
    ELSE IF ~Contains(s, sub) THEN -1
    ELSE CHOOSE i \in 0..(Len(s) - Len(sub)) :
             /\ OccursAt(s, sub, i)
             /\ \A j \in 0..(i - 1) : ~OccursAt(s, sub, j)

\* s.strip(): from the first to the last character that is not whitespace
Strip(s) ==
    LET upto(b) ==
            SubSeq(s, b,
                   CHOOSE h \in (b - 1)..Len(s) :
                       /\ h = b - 1 \/ s[h] \notin Whitespace
                       /\ \A j \in (h + 1)..Len(s) : s[j] \in Whitespace)
    IN  upto(CHOOSE b \in 1..(Len(s) + 1) :
                 /\ b = Len(s) + 1 \/ s[b] \notin Whitespace
                 /\ \A j \in 1..(b - 1) : s[j] \in Whitespace)

\* s.split(): maximal runs of non-whitespace characters, in order
RECURSIVE SplitFrom(_, _)
SplitFrom(s, pos) ==
    LET word(b, stops) ==
            IF stops = {} THEN <<SubSeq(s, b, Len(s))>>
            ELSE <<SubSeq(s, b, Min(stops) - 1)>> \o SplitFrom(s, Min(stops))
        from(starts) ==
            IF starts = {} THEN <<>>
            ELSE word(Min(starts), {j \in Min(starts)..Len(s) : s[j] \in Whitespace})
    IN  from({i \in pos..Len(s) : s[i] \notin Whitespace})

Split(s) == SplitFrom(s, 1)

\* sep.join(parts)
RECURSIVE JoinList(_, _)
JoinList(sep, parts) ==
    IF Len(parts) = 0 THEN <<>>
    ELSE IF Len(parts) = 1 THEN parts[1]
    ELSE parts[1] \o sep \o JoinList(sep, Tail(parts))

Join(sep, parts) == JoinList(sep, ListOf(parts))

\* parts[:n]
Take(parts, n) == SubSeq(parts, 1, MinOf(n, Len(parts)))

\* ------------------------------------------------------------------------
\* re: the only expressions used are \b + re.escape(literal) + \b
\* ------------------------------------------------------------------------
\* is position i (0-based, between characters i and i+1) a \b boundary
Boundary(s, i) ==
    LET IsWordAt(j) == j >= 1 /\ j <= Len(s) /\ s[j] \in WordChars
    IN  IsWordAt(i) # IsWordAt(i + 1)

MatchAt(lit, s, i) ==
    /\ i + Len(lit) <= Len(s)
    /\ Len(lit) > 0 => s[i + 1] = lit[1]
    /\ SubSeq(s, i + 1, i + Len(lit)) = lit
    /\ Boundary(s, i)
    /\ Boundary(s, i + Len(lit))

MatchStarts(lit, s) == {i \in 0..Len(s) : MatchAt(lit, s, i)}

\* re.search(pattern, s) is not None
ReSearch(lit, s) == MatchStarts(lit, s) # {}

\* re.finditer: leftmost non-overlapping matches, as (start, end) spans
RECURSIVE Spans(_, _, _)
Spans(starts, n, pos) ==
    LET span(i) == <<[start |-> i, end |-> i + n]>>
                   \o Spans(starts, n, IF n = 0 THEN i + 1 ELSE i + n)
        from(rest) == IF rest = {} THEN <<>> ELSE span(Min(rest))
    IN  from({i \in starts : i >= pos})

ReFinditer(lit, s) == Spans(MatchStarts(lit, s), Len(lit), 0)

\* ------------------------------------------------------------------------
\* app/models.py
\* ------------------------------------------------------------------------
\* ConfidenceLevel
High == "High"

Medium == "Medium"

Low == "Low"

DocumentSection(heading, content) == [heading |-> heading, content |-> content]

Assumption(text, source_section) ==
    [text |-> text, source_section |-> source_section, confidence |-> Medium]

FailurePatternMatch(pattern, confidence, match_strength, evidence, impact_surface) ==
    [kind |-> "FailurePatternMatch",
     pattern_id |-> pattern.id,
     name |-> pattern.name,
     confidence |-> confidence,
     match_strength |-> match_strength,
     evidence |-> evidence,
     trigger_conditions |-> pattern.trigger_conditions,
     why_subtle |-> pattern.why_subtle,
     impact_surface |-> impact_surface,
     discussion_questions |-> pattern.discussion_questions]

\* an re.Match object: it has a span and, having no __eq__, is equal only
\* to itself, so it carries the identity of its allocation
ReMatch(span, oid) == [kind |-> "re.Match", span |-> span, oid |-> oid]

IsFPM(m) == m.kind = "FailurePatternMatch"

\* dict.get(key, default)
Get(d, key, default) == IF key \in DOMAIN d THEN d[key] ELSE default

\* FailurePatternLibrary.all(): the patterns in load order
All(pattern_library) == pattern_library

\* ------------------------------------------------------------------------
\* app/matcher.py
\* ------------------------------------------------------------------------
\* scores are in tenths
ScoreUnit == 10

AssumptionIncrement == 5

MitigationDecrement == 3

ContextRadius == 100

SnippetLimit == 200

SnippetRadius == 80

AssumptionExcerpt == 60

DefaultSafetySignals ==
    << <<"c", "i", "r", "c", "u", "i", "t", " ", "b", "r", "e", "a", "k", "e", "r">>,
       <<"r", "a", "t", "e", " ", "l", "i", "m", "i", "t">>,
       <<"t", "i", "m", "e", "o", "u", "t">>,
       <<"d", "e", "a", "d", "l", "i", "n", "e">>,
       <<"b", "a", "c", "k", "p", "r", "e", "s", "s", "u", "r", "e">>,
       <<"l", "o", "a", "d", " ", "s", "h", "e", "d", "d", "i", "n", "g">>,
       <<"h", "e", "d", "g", "i", "n", "g">>,
       <<"f", "a", "l", "l", "b", "a", "c", "k">> >>

derive_impact_surface(pattern) ==
    LET has(w) == Contains(Lower(pattern.name), w)
        found ==
            (IF has(<<"l", "a", "t", "e", "n", "c", "y">>) \/ has(<<"t", "a", "i", "l">>)
             THEN <<"User-facing latency spikes">> ELSE <<>>)
            \o (IF has(<<"r", "e", "t", "r", "y">>) \/ has(<<"a", "m", "p", "l", "i", "f", "i", "c", "a", "t", "i", "o", "n">>)
                THEN <<"Downstream error amplification", "Increased load on dependencies">>
                ELSE <<>>)
            \o (IF has(<<"q", "u", "e", "u", "e">>) \/ has(<<"b", "a", "c", "k", "p", "r", "e", "s", "s", "u", "r", "e">>)
                THEN <<"Consumer lag and memory pressure">> ELSE <<>>)
            \o (IF has(<<"c", "a", "c", "h", "e">>) \/ has(<<"s", "t", "a", "m", "p", "e", "d", "e">>)
                THEN <<"Backend overload from cache misses">> ELSE <<>>)
            \o (IF has(<<"c", "o", "n", "s", "i", "s", "t", "e", "n", "c", "y">>) \/ has(<<"d", "r", "i", "f", "t">>)
                THEN <<"Data inconsistency and user confusion">> ELSE <<>>)
            \o (IF has(<<"p", "a", "r", "t", "i", "t", "i", "o", "n">>) \/ has(<<"n", "e", "t", "w", "o", "r", "k">>)
                THEN <<"Service unavailability in affected regions">> ELSE <<>>)
    IN  IF found = <<>>
        THEN <<"Service degradation under failure conditions", "Potential user-facing errors">>
        ELSE found

\* the increasing enumeration of a finite set of integers
RECURSIVE Ascending(_)
Ascending(S) ==
    IF S = {} THEN <<>> ELSE <<Min(S)>> \o Ascending(S \ {Min(S)})

\* full_text = " ".join(section.content.lower() for section in sections)
FullText(parsed_doc) ==
    Join(<<" ">>, [i \in 1..Len(parsed_doc) |-> Lower(parsed_doc[i].content)])

\* the short-circuit without the length test: only `if not full_text`
TooShortEmptyOnly(parsed_doc) == FullText(parsed_doc) = <<>>

\* `if not full_text or len(full_text.strip()) < 10`
TooShort(parsed_doc) ==
    LET short(full_text) == full_text = <<>> \/ Len(Strip(full_text)) < 10
    IN  short(FullText(parsed_doc))

\* the snippet shown for a cleaned context
Snippet(context_cleaned, signal) ==
    LET around(signal_pos) ==
            LET cut(before_start, after_end) ==
                    (IF before_start > 0 THEN <<".", ".", ".">> ELSE <<>>)
                    \o Slice(context_cleaned, before_start, after_end)
                    \o (IF after_end < Len(context_cleaned) THEN <<".", ".", ".">> ELSE <<>>)
            IN  IF signal_pos >= 0
                THEN cut(MaxOf(0, signal_pos - SnippetRadius),
                         MinOf(Len(context_cleaned),
                               signal_pos + Len(signal) + SnippetRadius))
                ELSE Slice(context_cleaned, 0, SnippetLimit) \o <<".", ".", ".">>
    IN  IF Len(context_cleaned) > SnippetLimit
        THEN around(Find(Lower(context_cleaned), Lower(signal)))
        ELSE context_cleaned

\* the context snippet of one matching section (a one-element list, or the
\* empty list when no context could be extracted)
ContextSnippet(section, first_match, signal) ==
    LET start_pos == MaxOf(0, first_match.start - ContextRadius)
        end_pos == MinOf(Len(section.content), first_match.end + ContextRadius)
        extract(context) ==
            IF context = <<>> THEN <<>>
            ELSE <<[section |-> section.heading,
                    snippet |-> Snippet(Join(<<" ">>, Split(context)), signal),
                    signal |-> signal]>>
    IN  extract(Strip(Slice(section.content, start_pos, end_pos)))

\* the evidence line with context_snippets[-1] for context_snippets[0]: the
\* last matching section is cited
SignalEvidenceLast(signal, matching_sections, context_snippets) ==
    [line |-> "Section",
     section |-> context_snippets[Len(context_snippets)].section,
     others |-> Len(matching_sections) - 1,
     snippet |-> context_snippets[Len(context_snippets)].snippet]

\* the evidence line of a signal found in matching_sections
SignalEvidence(signal, matching_sections, context_snippets) ==
    IF context_snippets # <<>>
    THEN [line |-> "Section",
          section |-> context_snippets[1].section,
          others |-> Len(matching_sections) - 1,
          snippet |-> context_snippets[1].snippet]
    ELSE [line |-> "Signal",
          signal |-> signal,
          sections |-> IF Len(matching_sections) = 1
                       THEN Take(matching_sections, 1)
                       ELSE Take(matching_sections, 3)]

\* one iteration of `for signal in pattern["signals"]`: whether the signal
\* counts, its evidence line, and the list the name `matches` is left bound
\* to by the section loop
SignalScan(signal, parsed_doc) ==
    LET cite(found, hit) ==
            [counted |-> IF hit # <<>> THEN 1 ELSE 0,
             evidence |->
                 IF hit # <<>>
                 THEN <<SignalEvidence(
                          signal,
                          [k \in 1..Len(hit) |-> parsed_doc[hit[k]].heading],
                          Join(<<>>, [k \in 1..Len(hit) |->
                                         ContextSnippet(parsed_doc[hit[k]],
                                                        found[hit[k]][1], signal)]))>>
                 ELSE <<>>,
             matches |-> IF Len(parsed_doc) = 0 THEN <<>> ELSE found[Len(parsed_doc)],
             rebinds |-> Len(parsed_doc) > 0]
        scan(found) ==
            cite(found, Ascending({i \in 1..Len(parsed_doc) : found[i] # <<>>}))
    IN  scan(ListOf([i \in 1..Len(parsed_doc) |->
                        ReFinditer(Lower(signal), Lower(parsed_doc[i].content))]))

\* the score with `score += 1` outside `if signal_found`: every signal counts
SumCountedAll(scans) == Len(scans)

\* the score: one per signal found in at least one section
RECURSIVE SumCounted(_)
SumCounted(scans) ==
    IF scans = <<>> THEN 0 ELSE scans[1].counted + SumCounted(Tail(scans))

\* assumption reinforcement with `kw in assumption.text` for
\* `kw in assumption_lower`: the assumption text is not lowercased
ReinforcementCaseSensitive(pattern, assumptions) ==
    LET lines(idx) ==
            ListOf([k \in 1..Len(idx) |->
                [line |-> "Reinforced",
                 section |-> assumptions[idx[k]].source_section,
                 text |-> Slice(assumptions[idx[k]].text, 0, AssumptionExcerpt)]])
        reinforcing(first3) ==
            lines(Ascending({i \in 1..Len(assumptions) :
                      \E k \in 1..Len(first3) :
                          Contains(assumptions[i].text, first3[k])}))
        keywords(names) ==
            reinforcing(Take(ListOf([k \in 1..Len(names) |-> Lower(names[k])]), 3))
    IN  keywords(Split(pattern.name))

\* assumption reinforcement of one pattern: the evidence lines, one per
\* reinforcing assumption
Reinforcement(pattern, assumptions) ==
    LET lines(idx) ==
            ListOf([k \in 1..Len(idx) |->
                [line |-> "Reinforced",
                 section |-> assumptions[idx[k]].source_section,
                 text |-> Slice(assumptions[idx[k]].text, 0, AssumptionExcerpt)]])
        reinforcing(first3) ==
            lines(Ascending({i \in 1..Len(assumptions) :
                      \E k \in 1..Len(first3) :
                          Contains(Lower(assumptions[i].text), first3[k])}))
        keywords(names) ==
            reinforcing(Take(ListOf([k \in 1..Len(names) |-> Lower(names[k])]), 3))
    IN  keywords(Split(pattern.name))

\* pattern.get("safety_signals", []) with the fallback to the default list
SafetySignals(pattern) ==
    IF Get(pattern, "safety_signals", <<>>) = <<>>
    THEN DefaultSafetySignals
    ELSE Get(pattern, "safety_signals", <<>>)

\* the headings of the sections that mention a mitigation phrase
MitigationSections(mitigation, parsed_doc) ==
    LET headings(at) == ListOf([k \in 1..Len(at) |-> parsed_doc[at[k]].heading])
    IN  headings(Ascending({i \in 1..Len(parsed_doc) :
                     ReSearch(Lower(mitigation), Lower(parsed_doc[i].content))}))

\* mitigation detection with the penalty inside the section loop: one
\* evidence line per mitigation phrase and section that mentions it
MitigationPerSection(pattern, parsed_doc) ==
    LET lines(safety_signals, sections) ==
            Join(<<>>, [i \in 1..Len(safety_signals) |->
                [k \in 1..Len(sections[i]) |->
                    [line |-> "Mitigation",
                     sections |-> <<sections[i][k]>>,
                     mitigation |-> safety_signals[i]]]])
        each(safety_signals) ==
            lines(safety_signals,
                  ListOf([i \in 1..Len(safety_signals) |->
                             MitigationSections(safety_signals[i], parsed_doc)]))
    IN  each(SafetySignals(pattern))

\* mitigation detection of one pattern: the evidence lines, one per
\* mitigation phrase found in at least one section
Mitigation(pattern, parsed_doc) ==
    LET lines(safety_signals, sections, idx) ==
            ListOf([k \in 1..Len(idx) |->
                [line |-> "Mitigation",
                 sections |-> IF Len(sections[idx[k]]) = 1
                              THEN sections[idx[k]]
                              ELSE Take(sections[idx[k]], 2),
                 mitigation |-> safety_signals[idx[k]]]])
        detected(safety_signals, sections) ==
            lines(safety_signals, sections,
                  Ascending({i \in 1..Len(safety_signals) : sections[i] # <<>>}))
        each(safety_signals) ==
            detected(safety_signals,
                     ListOf([i \in 1..Len(safety_signals) |->
                                MitigationSections(safety_signals[i], parsed_doc)]))
    IN  each(SafetySignals(pattern))

\* the final score without the floor of line 160
FinalScoreNoFloor(score, assumption_bonus, mitigation_penalty) ==
    score * ScoreUnit + assumption_bonus - mitigation_penalty

\* final_score = max(1, score + assumption_bonus - mitigation_penalty)
FinalScore(score, assumption_bonus, mitigation_penalty) ==
    MaxOf(1 * ScoreUnit, score * ScoreUnit + assumption_bonus - mitigation_penalty)

\* the confidence assignment without `or assumption_bonus > 0`
ConfidenceScoreOnly(final_score, assumption_bonus) ==
    IF final_score >= 3 * ScoreUnit THEN High
    ELSE IF final_score >= 2 * ScoreUnit THEN Medium
    ELSE Low

\* the confidence assignment with `final_score == 3` for `final_score >= 3`
ConfidenceExact(final_score, assumption_bonus) ==
    IF final_score = 3 * ScoreUnit THEN High
    ELSE IF final_score >= 2 * ScoreUnit \/ assumption_bonus > 0 THEN Medium
    ELSE Low

\* the confidence assignment
Confidence(final_score, assumption_bonus) ==
    IF final_score >= 3 * ScoreUnit THEN High
    ELSE IF final_score >= 2 * ScoreUnit \/ assumption_bonus > 0 THEN Medium
    ELSE Low

RECURSIVE GCD(_, _)
GCD(a, b) == IF b = 0 THEN a ELSE GCD(b, a % b)

\* a float in [0, 1] as a fraction in lowest terms
Fraction(num, den) == [num |-> num \div GCD(num, den), den |-> den \div GCD(num, den)]

\* match_strength without the clamp: final_score / max(total_signals, 1)
MatchStrengthUnclamped(final_score, total_signals) ==
    Fraction(final_score, MaxOf(total_signals, 1) * ScoreUnit)

\* match_strength = min(final_score / max(total_signals, 1), 1.0)
MatchStrength(final_score, total_signals) ==
    IF final_score >= MaxOf(total_signals, 1) * ScoreUnit
    THEN Fraction(1, 1)
    ELSE Fraction(final_score, MaxOf(total_signals, 1) * ScoreUnit)

\* pattern.get("impact_surface", []) with the derivation as fallback
ImpactSurface(pattern) ==
    IF Get(pattern, "impact_surface", <<>>) = <<>>
    THEN derive_impact_surface(pattern)
    ELSE Get(pattern, "impact_surface", <<>>)

\* the locals of an iteration that passed `if score == 0: continue`
ScoredLocals(pattern, scans, score, reinforced, mitigated) ==
    LET assumption_bonus == Len(reinforced) * AssumptionIncrement
        mitigation_penalty == Len(mitigated) * MitigationDecrement
        final_score == FinalScore(score, assumption_bonus, mitigation_penalty)
    IN  [pattern_id |-> pattern.id,
         total_signals |-> Len(pattern.signals),
         score |-> score,
         assumption_bonus |-> assumption_bonus,
         mitigation_penalty |-> mitigation_penalty,
         final_score |-> final_score,
         confidence |-> Confidence(final_score, assumption_bonus),
         match_strength |-> MatchStrength(final_score, Len(pattern.signals)),
         evidence |-> Join(<<>>, [k \in 1..Len(scans) |-> scans[k].evidence])
                      \o reinforced \o mitigated,
         impact_surface |-> ImpactSurface(pattern),
         rebinds |-> scans # <<>> /\ scans[Len(scans)].rebinds,
         last_finditer |-> IF scans = <<>> THEN <<>> ELSE scans[Len(scans)].matches]

\* the locals of an iteration that leaves at `if score == 0: continue`: the
\* bonus and the penalty are still 0 and nothing else was computed
SkippedLocals(pattern, scans) ==
    [pattern_id |-> pattern.id,
     total_signals |-> Len(pattern.signals),
     score |-> 0,
     assumption_bonus |-> 0,
     mitigation_penalty |-> 0,
     evidence |-> <<>>,
     rebinds |-> scans # <<>> /\ scans[Len(scans)].rebinds,
     last_finditer |-> IF scans = <<>> THEN <<>> ELSE scans[Len(scans)].matches]

\* the locals of one iteration of `for pattern in pattern_library.all()`
PatternLocals(pattern, parsed_doc, assumptions) ==
    LET locals(scans, score) ==
            IF score = 0 THEN SkippedLocals(pattern, scans)
            ELSE ScoredLocals(pattern, scans, score,
                              Reinforcement(pattern, assumptions),
                              Mitigation(pattern, parsed_doc))
        counted(scans) == locals(scans, SumCounted(scans))
    IN  counted(ListOf([k \in 1..Len(pattern.signals) |->
                           SignalScan(pattern.signals[k], parsed_doc)]))

\* the list the name `matches` is bound to after the iteration for one
\* pattern: the inner `matches = list(re.finditer(...))` rebinds the result
\* list, and the pattern's FailurePatternMatch is appended to whatever
\* `matches` is bound to at that point
MatchesAfter(matches, pattern, locals, oid) ==
    LET spans == locals.last_finditer
        append(bound) ==
            IF locals.score = 0 THEN bound
            ELSE Append(bound,
                        FailurePatternMatch(pattern, locals.confidence,
                                            locals.match_strength, locals.evidence,
                                            locals.impact_surface))
    IN  append(IF locals.rebinds
               THEN ListOf([k \in 1..Len(spans) |->
                       ReMatch(<<spans[k].start, spans[k].end>>, <<oid, k>>)])
               ELSE matches)

\* the locals of every iteration of `for pattern in pattern_library.all()`,
\* in iteration order; the loop is not entered for a document that is
\* short-circuited
ScannedLocals(parsed_doc, pattern_library, assumptions) ==
    IF TooShort(parsed_doc) THEN <<>>
    ELSE ListOf([k \in 1..Len(All(pattern_library)) |->
             PatternLocals(All(pattern_library)[k], parsed_doc, assumptions)])

\* the pattern loop from iteration k on, given the locals of its
\* iterations; call numbers the invocation, so that objects of two calls
\* are distinct
RECURSIVE PatternLoop(_, _, _, _, _)
PatternLoop(all_patterns, locals, k, matches, call) ==
    IF k > Len(locals) THEN matches
    ELSE PatternLoop(all_patterns, locals, k + 1,
                     MatchesAfter(matches, all_patterns[k], locals[k], <<call, k>>),
                     call)

\* the list match_patterns returns, given the locals of its pattern loop
Matches(pattern_library, locals, call) ==
    PatternLoop(All(pattern_library), locals, 1, <<>>, call)

\* match_patterns(parsed_doc, pattern_library, assumptions)
match_patterns(parsed_doc, pattern_library, assumptions, call) ==
    Matches(pattern_library,
            ScannedLocals(parsed_doc, pattern_library, assumptions), call)
\* ------------------------------------------------------------------------
\* Results of calls: a returned value or a raised exception
\* ------------------------------------------------------------------------
Returned(v) == [status |-> "returned", value |-> v]

Raised(e) == [status |-> "raised", error |-> e]

NotCalled == [status |-> "not called"]

\* Python values of fields that may hold None, a str or another object
None == [type |-> "NoneType"]

Str(text) == [type |-> "str", text |-> text]

\* ------------------------------------------------------------------------
\* app/unknowns.py
\* ------------------------------------------------------------------------
UnknownsLimit == 10

\* contextual_metadata: None and {} are the record with no field; a field
\* holding None or "" is falsy
NoMetadata == [k \in {} |-> ""]

Supplied(contextual_metadata, key) ==
    DOMAIN contextual_metadata # {} /\ Get(contextual_metadata, key, "") # ""

Statement(check, text) == [check |-> check, text |-> text]

\* is a required_context field mentioned in the document text
Mentioned(context_field, full_text) ==
    \/ Contains(full_text,
                ListOf([k \in 1..Len(context_field) |->
                           IF Lower(context_field)[k] = "_" THEN " "
                           ELSE Lower(context_field)[k]]))
    \/ Contains(full_text, Lower(context_field))

\* the statement of one required_context pattern, as a list
RequiredContextStatement(pattern, full_text) ==
    LET required_context == Get(pattern, "required_context", <<>>)
        missing_context ==
            {i \in 1..Len(required_context) :
                ~Mentioned(required_context[i], full_text)}
    IN  IF required_context # <<>>
           /\ Cardinality(missing_context) = Len(required_context)
        THEN <<[check |-> "required_context",
                pattern |-> pattern.name,
                fields |-> Take(required_context, 3)]>>
        ELSE <<>>

\* the statements of the required_context loop
RequiredContext(all_patterns, matched_pattern_ids, full_text) ==
    LET each(unmatched) ==
            Join(<<>>, [k \in 1..Len(unmatched) |->
                           RequiredContextStatement(all_patterns[unmatched[k]],
                                                    full_text)])
    IN  each(Ascending({i \in 1..Len(all_patterns) :
                 all_patterns[i].id \notin matched_pattern_ids}))

PotentialMissingAll(all_patterns, matched_pattern_ids, full_text) ==
    LET related(pattern) ==
            \E k \in 1..MinOf(2, Len(Split(Lower(pattern.name)))) :
                Contains(full_text, Split(Lower(pattern.name))[k])
        named(potential) ==
            IF potential = <<>> THEN <<>>
            ELSE <<[check |-> "related",
                    patterns |-> ListOf([k \in 1..Len(potential) |->
                                            all_patterns[potential[k]].name])]>>
    IN  named(Ascending({i \in 1..Len(all_patterns) :
                  /\ all_patterns[i].id \notin matched_pattern_ids
                  /\ related(all_patterns[i])}))

\* the aggregate statement of the potential_missing_patterns loop
PotentialMissing(all_patterns, matched_pattern_ids, full_text) ==
    LET related(pattern) ==
            \E k \in 1..MinOf(2, Len(Split(Lower(pattern.name)))) :
                Contains(full_text, Split(Lower(pattern.name))[k])
        aggregate(potential_missing_patterns) ==
            IF potential_missing_patterns # <<>>
            THEN <<[check |-> "related",
                    patterns |-> Take(potential_missing_patterns, 3)]>>
            ELSE <<>>
        names(potential) ==
            aggregate(ListOf([k \in 1..Len(potential) |->
                                 all_patterns[potential[k]].name]))
    IN  names(Ascending({i \in 1..Len(all_patterns) :
                  /\ all_patterns[i].id \notin matched_pattern_ids
                  /\ related(all_patterns[i])}))

\* the statements of detect_unknowns before the truncation, for full_text
UnknownStatements(parsed_doc, matched_pattern_ids, all_patterns, contextual_metadata, full_text) ==
    LET has(w) == Contains(full_text, w)
        scale ==
            IF ~Supplied(contextual_metadata, "expected_scale_qps")
               /\ ~has(<<"s", "c", "a", "l", "e">>) /\ ~has(<<"q", "p", "s">>) /\ ~has(<<"t", "h", "r", "o", "u", "g", "h", "p", "u", "t">>)
            THEN <<Statement("scale", "Expected scale (QPS/throughput) not specified")>>
            ELSE <<>>
        latency ==
            IF ~Supplied(contextual_metadata, "critical_slos_latency")
               /\ ~has(<<"s", "l", "o">>) /\ ~has(<<"l", "a", "t", "e", "n", "c", "y">>) /\ ~has(<<"p", "9", "9">>)
            THEN <<Statement("latency", "Critical SLOs (latency) not specified")>>
            ELSE <<>>
        availability ==
            IF ~Supplied(contextual_metadata, "critical_slos_availability")
               /\ ~has(<<"a", "v", "a", "i", "l", "a", "b", "i", "l", "i", "t", "y">>) /\ ~has(<<"u", "p", "t", "i", "m", "e">>)
            THEN <<Statement("availability", "Critical SLOs (availability) not specified")>>
            ELSE <<>>
        region ==
            IF ~has(<<"r", "e", "g", "i", "o", "n">>) /\ ~has(<<"m", "u", "l", "t", "i", "-", "r", "e", "g", "i", "o", "n">>)
            THEN <<Statement("region", "Multi-region behavior and failover strategy not specified")>>
            ELSE <<>>
        observability ==
            IF ~has(<<"m", "o", "n", "i", "t", "o", "r", "i", "n", "g">>) /\ ~has(<<"o", "b", "s", "e", "r", "v", "a", "b", "i", "l", "i", "t", "y">>) /\ ~has(<<"m", "e", "t", "r", "i", "c", "s">>)
            THEN <<Statement("observability", "Monitoring and observability strategy not specified")>>
            ELSE <<>>
        testing ==
            IF ~has(<<"l", "o", "a", "d", " ", "t", "e", "s", "t">>) /\ ~has(<<"s", "t", "r", "e", "s", "s", " ", "t", "e", "s", "t">>) /\ ~has(<<"c", "h", "a", "o", "s">>)
            THEN <<Statement("testing", "Load testing and failure simulation strategy not specified")>>
            ELSE <<>>
        dependency ==
            IF ~Supplied(contextual_metadata, "known_dependencies")
               /\ (has(<<"d", "e", "p", "e", "n", "d", "e", "n", "c", "y">>) \/ has(<<"s", "e", "r", "v", "i", "c", "e">>))
               /\ (~has(<<"d", "e", "p", "e", "n", "d", "e", "n", "c", "y">>)
                   \/ Cardinality({i \in 1..Len(parsed_doc) :
                          Contains(Lower(parsed_doc[i].heading), <<"d", "e", "p", "e", "n", "d", "e", "n", "c", "y">>)}) = 0)
            THEN <<Statement("dependency", "Dependency list and failure modes not explicitly documented")>>
            ELSE <<>>
        traffic ==
            IF ~has(<<"t", "r", "a", "f", "f", "i", "c">>) /\ ~has(<<"r", "e", "q", "u", "e", "s", "t">>) /\ ~has(<<"l", "o", "a", "d">>)
            THEN <<Statement("traffic", "Traffic patterns and load characteristics not specified")>>
            ELSE <<>>
        errors ==
            IF ~has(<<"e", "r", "r", "o", "r">>) /\ ~has(<<"f", "a", "i", "l", "u", "r", "e">>) /\ ~has(<<"e", "x", "c", "e", "p", "t", "i", "o", "n">>)
            THEN <<Statement("errors", "Error handling and failure recovery strategies not explicitly documented")>>
            ELSE <<>>
    IN  scale \o latency \o availability \o region \o observability \o testing
        \o RequiredContext(all_patterns, matched_pattern_ids, full_text)
        \o PotentialMissing(all_patterns, matched_pattern_ids, full_text)
        \o dependency \o traffic \o errors

detect_unknownsUncapped(parsed_doc, matched_patterns, pattern_library, contextual_metadata) ==
    IF \E i \in 1..Len(matched_patterns) : ~IsFPM(matched_patterns[i])
    THEN Raised("AttributeError")
    ELSE Returned(UnknownStatements(
             parsed_doc,
             {matched_patterns[i].pattern_id : i \in 1..Len(matched_patterns)},
             All(pattern_library), contextual_metadata, FullText(parsed_doc)))

detect_unknowns(parsed_doc, matched_patterns, pattern_library, contextual_metadata) ==
    \* p.pattern_id of an object that is not a FailurePatternMatch
    IF \E i \in 1..Len(matched_patterns) : ~IsFPM(matched_patterns[i])
    THEN Raised("AttributeError")
    ELSE Returned(Take(
             UnknownStatements(
                 parsed_doc,
                 {matched_patterns[i].pattern_id : i \in 1..Len(matched_patterns)},
                 All(pattern_library), contextual_metadata, FullText(parsed_doc)),
             UnknownsLimit))

\* ------------------------------------------------------------------------
\* app/llm.py as seen by its callers: one call_llm / call_llm_async call
\* either returns the response text or raises LLMError after its retries
\* ------------------------------------------------------------------------
LLMFailed == Raised("LLMError")

\* ------------------------------------------------------------------------
\* app/ruled_out.py
\* ------------------------------------------------------------------------
RuledOutLimit == 5

COMMON_RISKS ==
    << <<"N", "e", "t", "w", "o", "r", "k", " ", "s", "a", "t", "u", "r", "a", "t", "i", "o", "n">>,
       <<"M", "e", "m", "o", "r", "y", " ", "p", "r", "e", "s", "s", "u", "r", "e">>,
       <<"C", "r", "o", "s", "s", "-", "r", "e", "g", "i", "o", "n", " ", "l", "a", "t", "e", "n", "c", "y">>,
       <<"C", "P", "U", " ", "e", "x", "h", "a", "u", "s", "t", "i", "o", "n">>,
       <<"D", "i", "s", "k", " ", "I", "/", "O", " ", "b", "o", "t", "t", "l", "e", "n", "e", "c", "k", "s">>,
       <<"D", "a", "t", "a", "b", "a", "s", "e", " ", "c", "o", "n", "n", "e", "c", "t", "i", "o", "n", " ", "p", "o", "o", "l", " ", "e", "x", "h", "a", "u", "s", "t", "i", "o", "n">>,
       <<"S", "S", "L", "/", "T", "L", "S", " ", "h", "a", "n", "d", "s", "h", "a", "k", "e", " ", "f", "a", "i", "l", "u", "r", "e", "s">>,
       <<"D", "N", "S", " ", "r", "e", "s", "o", "l", "u", "t", "i", "o", "n", " ", "f", "a", "i", "l", "u", "r", "e", "s">>,
       <<"L", "o", "a", "d", " ", "b", "a", "l", "a", "n", "c", "e", "r", " ", "f", "a", "i", "l", "u", "r", "e", "s">>,
       <<"C", "o", "n", "t", "a", "i", "n", "e", "r", " ", "o", "r", "c", "h", "e", "s", "t", "r", "a", "t", "i", "o", "n", " ", "f", "a", "i", "l", "u", "r", "e", "s">> >>

\* determine_ruled_out_risks with `return ruled_out` for
\* `return ruled_out[:5]`
determine_ruled_out_risksUncapped(parsed_doc_text, matched_patterns, llm) ==
    LET named(lowered) ==
            Ascending({i \in 1..Len(COMMON_RISKS) :
                Contains(lowered, Lower(COMMON_RISKS[i]))})
        parse(response, lowered) ==
            IF response = <<>> \/ Contains(lowered, <<"n", "o", "n", "e">>)
               \/ Contains(lowered, <<"e", "m", "p", "t", "y">>)
            THEN Returned(<<>>)
            ELSE Returned([k \in 1..Len(named(lowered)) |->
                              COMMON_RISKS[named(lowered)[k]]])
    IN  IF parsed_doc_text = <<>> THEN Returned(<<>>)
        ELSE IF \E i \in 1..Len(matched_patterns) : ~IsFPM(matched_patterns[i])
        THEN Raised("AttributeError")
        ELSE IF llm.status = "raised" THEN Returned(<<>>)
        ELSE parse(llm.value, Lower(llm.value))

\* llm is the outcome of the call_llm(prompt) of this invocation
determine_ruled_out_risks(parsed_doc_text, matched_patterns, llm) ==
    LET named(lowered) ==
            Ascending({i \in 1..Len(COMMON_RISKS) :
                Contains(lowered, Lower(COMMON_RISKS[i]))})
        listed(ruled_out) == Returned(Take(ruled_out, RuledOutLimit))
        parse(response, lowered) ==
            IF response = <<>> \/ Contains(lowered, <<"n", "o", "n", "e">>)
               \/ Contains(lowered, <<"e", "m", "p", "t", "y">>)
            THEN Returned(<<>>)
            ELSE listed([k \in 1..Len(named(lowered)) |->
                            COMMON_RISKS[named(lowered)[k]]])
    IN  IF parsed_doc_text = <<>> THEN Returned(<<>>)
        \* p.name of an object that has no name, before the try block
        ELSE IF \E i \in 1..Len(matched_patterns) : ~IsFPM(matched_patterns[i])
        THEN Raised("AttributeError")
        ELSE IF llm.status = "raised" THEN Returned(<<>>)
        ELSE parse(llm.value, Lower(llm.value))

\* ------------------------------------------------------------------------
\* app/synthesis.py
\* ------------------------------------------------------------------------
\* synthesize_summary is declared `async def`: the call expression
\* synthesize_summary(sorted_modes), not awaited, runs none of its body and
\* evaluates to a coroutine object
synthesize_summary(failure_modes) == [type |-> "coroutine"]

\* ------------------------------------------------------------------------
\* app/report.py
\* ------------------------------------------------------------------------
\* a < b for two fractions
FractionLess(a, b) == a.num * b.den < b.num * a.den

KeyLessStrengthFirst(a, b) ==
    \/ FractionLess(a.match_strength, b.match_strength)
    \/ a.match_strength = b.match_strength /\ a.confidence # High /\ b.confidence = High
    \/ a.match_strength = b.match_strength /\ (a.confidence = High) = (b.confidence = High)
           /\ a.confidence # Medium /\ b.confidence = Medium

\* the sort key of build_report, compared as Python compares tuples
KeyLess(a, b) ==
    LET a1 == a.confidence = High
        b1 == b.confidence = High
        a3 == a.confidence = Medium
        b3 == b.confidence = Medium
    IN  \/ ~a1 /\ b1
        \/ a1 = b1 /\ FractionLess(a.match_strength, b.match_strength)
        \/ a1 = b1 /\ a.match_strength = b.match_strength /\ ~a3 /\ b3

\* insert m behind every element whose key is not smaller than m's
RECURSIVE InsertDescending(_, _)
InsertDescending(sorted, m) ==
    IF sorted = <<>> THEN <<m>>
    ELSE IF KeyLess(sorted[1], m) THEN <<m>> \o sorted
    ELSE <<sorted[1]>> \o InsertDescending(Tail(sorted), m)

\* sorted(failure_modes, key=..., reverse=True): descending by key, elements
\* of equal key in their original order
RECURSIVE SortedDescending(_, _)
SortedDescending(failure_modes, sorted) ==
    IF failure_modes = <<>> THEN sorted
    ELSE SortedDescending(Tail(failure_modes),
                          InsertDescending(sorted, failure_modes[1]))

\* the sorted(...) expression of build_report; the key function reads
\* m.confidence and m.match_strength of every element
sorted_modes(failure_modes) ==
    IF \E i \in 1..Len(failure_modes) : ~IsFPM(failure_modes[i])
    THEN Raised("AttributeError")
    ELSE Returned(SortedDescending(failure_modes, <<>>))

overall_riskOfFirst(failure_modes) ==
    IF failure_modes # <<>> /\ failure_modes[1].confidence = High THEN High
    ELSE IF failure_modes # <<>> THEN Medium
    ELSE Low

overall_risk(failure_modes) ==
    IF \E i \in 1..Len(failure_modes) : failure_modes[i].confidence = High THEN High
    ELSE IF failure_modes # <<>> THEN Medium
    ELSE Low

\* llm is the outcome of the call_llm(prompt) made for the explanation
generate_why_this_matters(primary_concern, failure_modes, llm) ==
    IF primary_concern = None \/ primary_concern = Str(<<>>) \/ failure_modes = <<>>
    THEN None
    ELSE IF ~\E i \in 1..Len(failure_modes) : failure_modes[i].name = primary_concern.text
    THEN None
    ELSE IF llm.status = "raised" THEN None
    ELSE Str(llm.value)

\* the field validation of the SecondOpinionReport constructor
SecondOpinionReport(fields) ==
    IF fields.summary.type # "str" THEN Raised("ValidationError")
    ELSE Returned(fields)

\* the rest of build_report once failure_modes is sorted
AssembleReport(failure_modes, modes, assumptions, parsed_doc, primary, why_matters, ruled_out, unknowns) ==
    IF ruled_out.status = "raised" THEN ruled_out
    ELSE IF unknowns.status = "raised" THEN unknowns
    ELSE SecondOpinionReport(
             [overall_risk |-> overall_risk(failure_modes),
              primary_concern |-> primary,
              why_this_matters |-> why_matters,
              summary |-> IF modes # <<>>
                          THEN synthesize_summary(modes)
                          ELSE Str("See failure modes below."),
              failure_modes |-> modes,
              assumptions |-> assumptions,
              ruled_out |-> ruled_out.value,
              unknowns |-> unknowns.value,
              document_sections |->
                  ListOf([i \in 1..Len(parsed_doc) |-> parsed_doc[i].heading])])

\* call: the arguments other than failure_modes, assumptions and parsed_doc
\* (parsed_doc_text, whether a pattern_library is passed, and
\* contextual_metadata); llm_why and llm_ruled_out: the outcomes of the two
\* call_llm calls
build_report(failure_modes, assumptions, parsed_doc, pattern_library, call, llm_why, llm_ruled_out) ==
    LET assemble(modes, primary) ==
            AssembleReport(
                failure_modes, modes, assumptions, parsed_doc, primary,
                generate_why_this_matters(primary, modes, llm_why),
                determine_ruled_out_risks(call.parsed_doc_text, modes, llm_ruled_out),
                IF call.pattern_library
                THEN detect_unknowns(parsed_doc, modes, pattern_library,
                                     call.contextual_metadata)
                ELSE Returned(<<>>))
        ranked(sorted) ==
            IF sorted.status = "raised" THEN sorted
            ELSE assemble(sorted.value,
                          IF sorted.value # <<>>
                          THEN Str(sorted.value[1].name) ELSE None)
    IN  ranked(sorted_modes(failure_modes))


\* the locals of build_report when determine_ruled_out_risks has returned
\* or raised: sorted_modes, overall_risk, primary, why_matters and
\* ruled_out (lines 38-59)
ReportLocals(failure_modes, llm_why, parsed_doc_text, llm_ruled_out) ==
    LET explained(modes, primary) ==
            [status |-> "ranked",
             sorted_modes |-> modes,
             overall_risk |-> overall_risk(failure_modes),
             primary |-> primary,
             why_matters |-> generate_why_this_matters(primary, modes, llm_why),
             ruled_out |-> determine_ruled_out_risks(parsed_doc_text, modes,
                                                     llm_ruled_out)]
        ranked(sorted) ==
            IF sorted.status = "raised" THEN sorted
            ELSE explained(sorted.value,
                           IF sorted.value # <<>>
                           THEN Str(sorted.value[1].name) ELSE None)
    IN  ranked(sorted_modes(failure_modes))


\* ------------------------------------------------------------------------
\* app/config.py and app/llm.py: call_llm under its tenacity retry decorator
\* ------------------------------------------------------------------------
RetryDelayMin == 2

RetryDelayMax == 10

\* Settings: the fields the modelled code reads
Settings(ollama_model_name, llm_max_retries, pattern_library) ==
    [ollama_model_name |-> ollama_model_name,
     llm_max_retries |-> llm_max_retries,
     pattern_library |-> pattern_library]

\* an exception that leaves the body of call_llm: its type and how it arose
LLMError(cause) == [type |-> "LLMError", cause |-> cause]

\* the body of call_llm (one attempt), given what llm.invoke does
CallBody(settings, invoke) ==
    IF settings.ollama_model_name = "" THEN Raised(LLMError("validation"))
    ELSE IF invoke.status = "raised" THEN Raised(LLMError(invoke.error))
    ELSE Returned(Strip(invoke.value))

\* retry=retry_if_exception_type((ConnectionError, TimeoutError, LLMError))
Retried(outcome) ==
    /\ outcome.status = "raised"
    /\ outcome.error.type \in {"ConnectionError", "TimeoutError", "LLMError"}

\* stop_after_attempt with > for >=: one attempt more than configured
StoppedLate(attempt_number, settings) == attempt_number > settings.llm_max_retries

\* stop=stop_after_attempt(settings.llm_max_retries)
Stopped(attempt_number, settings) == attempt_number >= settings.llm_max_retries

\* wait=wait_exponential(multiplier=1, min=..., max=...)
WaitExponential(attempt_number) ==
    MaxOf(MaxOf(0, RetryDelayMin), MinOf(1 * 2 ^ (attempt_number - 1), RetryDelayMax))

\* the state of one call_llm call: the attempt it is in, the log of its
\* attempts and sleeps so far, and its result
NotStarted == [pc |-> "idle", attempt_number |-> 0, log |-> <<>>, result |-> NotCalled]

\* one iteration of the retry loop: the attempt and the decision that
\* follows it (return, raise the last exception, or sleep)
AfterAttempt(call, settings, outcome) ==
    [pc |-> IF ~Retried(outcome) \/ Stopped(call.attempt_number, settings)
            THEN "done" ELSE "sleeping",
     attempt_number |-> call.attempt_number,
     log |-> Append(call.log, [event |-> "attempt", outcome |-> outcome,
                                seconds |-> 0]),
     result |-> IF ~Retried(outcome) \/ Stopped(call.attempt_number, settings)
                THEN outcome ELSE NotCalled]

\* the sleep before the next attempt
AfterSleep(call) ==
    [pc |-> "attempting",
     attempt_number |-> call.attempt_number + 1,
     log |-> Append(call.log, [event |-> "sleep", outcome |-> NotCalled,
                                seconds |-> WaitExponential(call.attempt_number)]),
     result |-> NotCalled]


\* ------------------------------------------------------------------------
\* app/assumptions.py
\* ------------------------------------------------------------------------
SubstantialLength == 200

ShortLine == 10

\* any(re.search(pattern, section_text, re.IGNORECASE) for pattern in
\* modal_patterns); the three expressions are
\*   \b(expected to|should|will|likely|unlikely|assumed|assumes)\b
\*   \b(remains|stays|maintains).*(stable|low|constant|predictable)
\*   \b(traffic|load|latency|availability).*(is|remains|stays).*(predictable|stable|consistent)
\* AfterWordStart is \b(w1|w2|...): the offsets behind a word of words that
\* starts at a \b. AfterFollowing is .*(w1|w2|...) from offset k: the offsets
\* behind a word of words that starts at or after k with no line break in
\* between
HasModal(section_text) ==
    LET ModalWords ==
            {<<"e", "x", "p", "e", "c", "t", "e", "d", " ", "t", "o">>, <<"s", "h", "o", "u", "l", "d">>, <<"w", "i", "l", "l">>, <<"l", "i", "k", "e", "l", "y">>,
             <<"u", "n", "l", "i", "k", "e", "l", "y">>, <<"a", "s", "s", "u", "m", "e", "d">>, <<"a", "s", "s", "u", "m", "e", "s">>}
        StayWords == {<<"r", "e", "m", "a", "i", "n", "s">>, <<"s", "t", "a", "y", "s">>, <<"m", "a", "i", "n", "t", "a", "i", "n", "s">>}
        StableWords == {<<"s", "t", "a", "b", "l", "e">>, <<"l", "o", "w">>, <<"c", "o", "n", "s", "t", "a", "n", "t">>, <<"p", "r", "e", "d", "i", "c", "t", "a", "b", "l", "e">>}
        SubjectWords == {<<"t", "r", "a", "f", "f", "i", "c">>, <<"l", "o", "a", "d">>, <<"l", "a", "t", "e", "n", "c", "y">>, <<"a", "v", "a", "i", "l", "a", "b", "i", "l", "i", "t", "y">>}
        VerbWords == {<<"i", "s">>, <<"r", "e", "m", "a", "i", "n", "s">>, <<"s", "t", "a", "y", "s">>}
        SteadyWords == {<<"p", "r", "e", "d", "i", "c", "t", "a", "b", "l", "e">>, <<"s", "t", "a", "b", "l", "e">>, <<"c", "o", "n", "s", "i", "s", "t", "e", "n", "t">>}
        AfterWordStart(s, words) ==
            {e \in 0..Len(s) :
                \E w \in words :
                    /\ e >= Len(w)
                    /\ Boundary(s, e - Len(w))
                    /\ OccursAt(s, w, e - Len(w))}
        AfterFollowing(s, k, words) ==
            {e \in k..Len(s) :
                \E w \in words :
                    /\ e - Len(w) >= k
                    /\ OccursAt(s, w, e - Len(w))
                    /\ \A j \in (k + 1)..(e - Len(w)) : s[j] # "\n"}
    IN  \/ \E w \in ModalWords : ReSearch(w, section_text)
        \/ \E k \in AfterWordStart(section_text, StayWords) :
               AfterFollowing(section_text, k, StableWords) # {}
        \/ \E k \in AfterWordStart(section_text, SubjectWords) :
               \E e \in AfterFollowing(section_text, k, VerbWords) :
                   AfterFollowing(section_text, e, SteadyWords) # {}

\* the sections whose text is sent to the LLM
Gated(section) ==
    HasModal(Lower(section.content)) \/ Len(section.content) > SubstantialLength

\* str.splitlines(), for the line break "\n"
RECURSIVE SplitLines(_)
SplitLines(s) ==
    LET cut(breaks) ==
            IF breaks = {} THEN <<s>>
            ELSE <<SubSeq(s, 1, Min(breaks) - 1)>>
                 \o SplitLines(SubSeq(s, Min(breaks) + 1, Len(s)))
    IN  IF s = <<>> THEN <<>> ELSE cut({i \in 1..Len(s) : s[i] = "\n"})

\* the assumptions of one response, for the section of that heading.
\* LStrip removes leading whitespace (the \s* of the prefix expressions);
\* StripBullet is re.sub(r'^[-•*]\s*', '', line) for the bullets "-" and "*";
\* StripNumber is re.sub(r'^\d+\.\s*', '', line)
ParseResponse(response, heading) ==
    LET LStrip(s) ==
            SubSeq(s, CHOOSE b \in 1..(Len(s) + 1) :
                          /\ b = Len(s) + 1 \/ s[b] \notin Whitespace
                          /\ \A j \in 1..(b - 1) : s[j] \in Whitespace,
                   Len(s))
        StripBullet(line) ==
            IF line # <<>> /\ line[1] \in {"-", "*"} THEN LStrip(Tail(line))
            ELSE line
        Digits == {"0", "1", "2", "3", "4", "5", "6", "7", "8", "9"}
        StripNumber(line) ==
            LET digits == CHOOSE d \in 0..Len(line) :
                              /\ \A j \in 1..d : line[j] \in Digits
                              /\ d = Len(line) \/ line[d + 1] \notin Digits
            IN  IF digits >= 1 /\ digits < Len(line) /\ line[digits + 1] = "."
                THEN LStrip(SubSeq(line, digits + 2, Len(line)))
                ELSE line
        kept(line) ==
            /\ line # <<>>
            /\ Lower(line) # <<"n", "o", "n", "e">>
            /\ Take(line, 6) # <<"E", "r", "r", "o", "r", ":">>
        cleaned(line) == StripNumber(StripBullet(line))
        one(line) ==
            IF kept(line) /\ cleaned(line) # <<>> /\ Len(cleaned(line)) > ShortLine
            THEN <<Assumption(cleaned(line), heading)>>
            ELSE <<>>
        each(lines) ==
            Join(<<>>, [k \in 1..Len(lines) |-> one(Strip(lines[k]))])
    IN  each(SplitLines(response))

\* extract_assumptions about to run iteration k of its loop
Looping(k, assumptions, log) ==
    [pc |-> "looping", k |-> k, assumptions |-> assumptions, log |-> log]

\* one iteration of `for section in parsed_doc.sections` that raises what
\* the call raises
AfterSectionRaising(state, section, outcome) ==
    IF ~Gated(section)
    THEN Looping(state.k + 1, state.assumptions, Append(state.log, NotCalled))
    ELSE IF outcome.status = "raised"
    THEN [pc |-> "raised", k |-> state.k, assumptions |-> state.assumptions,
          log |-> Append(state.log, outcome)]
    ELSE Looping(state.k + 1,
                    state.assumptions \o ParseResponse(outcome.value, section.heading),
                    Append(state.log, outcome))

\* one iteration of `for section in parsed_doc.sections`; outcome is what
\* `await call_llm_async(prompt)` does if the section is sent
AfterSection(state, section, outcome) ==
    IF ~Gated(section)
    THEN Looping(state.k + 1, state.assumptions, Append(state.log, NotCalled))
    ELSE IF outcome.status = "raised"
    THEN Looping(state.k + 1, state.assumptions, Append(state.log, outcome))
    ELSE Looping(state.k + 1,
                    state.assumptions \o ParseResponse(outcome.value, section.heading),
                    Append(state.log, outcome))

\* ------------------------------------------------------------------------
\* app/main.py (startup) and app/api.py (the submit handler)
\* ------------------------------------------------------------------------
ApiRequestTimeout == 300

MaxDocumentLength == 1000000

MaxFileSize == 10485760

\* FailurePatternLibrary(path): the load fails with ConfigurationError when
\* the source is missing or is not a list of valid records
FailurePatternLibrary(pattern_library_path) ==
    IF pattern_library_path = "valid" THEN Returned(pattern_library_path)
    ELSE Raised("ConfigurationError")

\* validate_config(), the startup handler: what it raises, if anything
validate_config(settings) ==
    LET loaded(library) ==
            IF library.status = "raised" THEN library ELSE Returned(None)
    IN  IF settings.ollama_model_name = "" THEN Raised("ValueError")
        ELSE IF settings.pattern_library = "missing"
        THEN Raised("FileNotFoundError")
        ELSE loaded(FailurePatternLibrary(settings.pattern_library))

\* the application before its startup event
Down == [status |-> "down"]

\* a form text of the submission, by its length and the length of its
\* strip()
Text(length, stripped) == [type |-> "str", length |-> length, stripped |-> stripped]

\* bool(value) of an optional form text
Truthy(value) == value # None /\ value.length > 0

\* an UploadFile: filename.split('.'), the size of its content and the
\* decoded text
UploadFile(filename, size, text) == [filename |-> filename, size |-> size, text |-> text]

\* is_supported_file(filename), filename given as filename.split('.')
is_supported_file(filename) ==
    /\ filename # << <<>> >>
    /\ Len(filename) > 1
    /\ Lower(filename[Len(filename)])
           \in {<<"m", "d">>, <<"m", "a", "r", "k", "d", "o", "w", "n">>, <<"t", "x", "t">>, <<"r", "s", "t">>, <<"a", "d", "o", "c">>,
                <<"a", "s", "c", "i", "i", "d", "o", "c">>, <<"t", "e", "x", "t">>}

\* extract_text_from_file(file)
extract_text_from_file(file) ==
    IF file.size > MaxFileSize THEN Raised("HTTPException")
    ELSE IF file.text.stripped = 0 THEN Raised("HTTPException")
    ELSE Returned(file.text)

\* the context handed to the template by a response that reports an error
ErrorResponse(error) == [report |-> None, error |-> Str(error)]

\* a call of submit with the form fields it received; processing and building
\* are the seconds the two awaited steps took
Submitted(document, file, contextual_metadata) ==
    [status |-> "submitted", document |-> document, file |-> file,
     contextual_metadata |-> contextual_metadata, document_text |-> None,
     processing |-> 0, building |-> 0, response |-> None]

\* a call of submit that has returned its response
Responded(request, response) ==
    [request EXCEPT !.status = "responded", !.response = response]

\* submit up to the first await of the analysis: the validation of the input
\* and the choice of document_text
Received(request) ==
    LET document == request.document
        file == request.file
        Processing(document_text) ==
            [request EXCEPT !.status = "processing",
                            !.document_text = document_text]
        extracted(text) ==
            IF text.status = "raised"
            THEN Responded(request, ErrorResponse(<<"e", ".", "d", "e", "t", "a", "i", "l">>))
            ELSE Processing(text.value)
    IN  IF file = None /\ ~Truthy(document)
        THEN Responded(request, ErrorResponse(
                 <<"P", "l", "e", "a", "s", "e", " ", "p", "r", "o", "v", "i", "d", "e", " ", "e", "i", "t", "h", "e", "r", " ", "a", " ", "f", "i", "l", "e", " ", "u", "p", "l", "o", "a", "d", " ", "o", "r", " ", "p", "a", "s", "t", "e", " ", "t", "e", "x", "t", " ", "i", "n", " ", "t", "h", "e", " ", "t", "e", "x", "t", " ", "a", "r", "e", "a", ".">>))
        ELSE IF Truthy(document) /\ document.length > MaxDocumentLength
        THEN Responded(request, ErrorResponse(
                 <<"D", "o", "c", "u", "m", "e", "n", "t", " ", "t", "e", "x", "t", " ", "i", "s", " ", "t", "o", "o", " ", "l", "a", "r", "g", "e", ".", " ", "M", "a", "x", "i", "m", "u", "m", " ", "s", "i", "z", "e", " ", "i", "s", " ", "1", "M", "B", ".">>))
        ELSE IF file # None /\ file.filename # << <<>> >>
        THEN IF ~is_supported_file(file.filename)
             THEN Responded(request, ErrorResponse(
                      <<"U", "n", "s", "u", "p", "p", "o", "r", "t", "e", "d", " ", "f", "i", "l", "e", " ", "t", "y", "p", "e", ".", " ", "S", "u", "p", "p", "o", "r", "t", "e", "d", " ", "f", "o", "r", "m", "a", "t", "s", ":", " ", ".", "m", "d", ",", " ", ".", "t", "x", "t", ",", " ", ".", "r", "s", "t", ",", " ", ".", "a", "d", "o", "c", ",", " ", ".", "t", "e", "x", "t">>))
             ELSE extracted(extract_text_from_file(file))
        ELSE IF Truthy(document)
        THEN IF document.stripped = 0
             THEN Responded(request, ErrorResponse(<<"D", "o", "c", "u", "m", "e", "n", "t", " ", "t", "e", "x", "t", " ", "c", "a", "n", "n", "o", "t", " ", "b", "e", " ", "e", "m", "p", "t", "y", ".">>))
             ELSE Processing(Text(document.stripped, document.stripped))
        ELSE Processing(Text(0, 0))

\* wait_for on the report as if build_report returned an awaitable
AwaitReportAwaitable(built) == built

\* await asyncio.wait_for(build_report(...), timeout): build_report is a
\* plain function, so it has run to its end, however long it took, before
\* wait_for is called with what it returned; wait_for raises TypeError for
\* an argument that is not awaitable
AwaitReport(built) ==
    IF built.status = "raised" THEN built ELSE Raised("TypeError")

\* the return and the handlers of the report step (lines 197-251)
ReportResponse(awaited) ==
    IF awaited.status = "returned"
    THEN [report |-> awaited.value, error |-> None]
    ELSE IF awaited.error = "TimeoutError"
    THEN ErrorResponse(<<"R", "e", "q", "u", "e", "s", "t", " ", "t", "i", "m", "e", "o", "u", "t", " ", "d", "u", "r", "i", "n", "g", " ", "r", "e", "p", "o", "r", "t", " ", "g", "e", "n", "e", "r", "a", "t", "i", "o", "n", ".">>)
    ELSE IF awaited.error = "LLMError"
    THEN ErrorResponse(
             <<"E", "r", "r", "o", "r", " ", "g", "e", "n", "e", "r", "a", "t", "i", "n", "g", " ", "r", "e", "p", "o", "r", "t", ".", " ", "P", "l", "e", "a", "s", "e", " ", "e", "n", "s", "u", "r", "e", " ", "O", "l", "l", "a", "m", "a", " ", "i", "s", " ", "r", "u", "n", "n", "i", "n", "g", " ", "a", "n", "d", " ", "t", "h", "e", " ", "m", "o", "d", "e", "l", " ", "i", "s", " ", "a", "v", "a", "i", "l", "a", "b", "l", "e", ".">>)
    ELSE ErrorResponse(<<"E", "r", "r", "o", "r", " ", "g", "e", "n", "e", "r", "a", "t", "i", "n", "g", " ", "r", "e", "p", "o", "r", "t", ":", " ">>)

\* ------------------------------------------------------------------------
\* app/patterns.py: the curated library of the design analyzer
\* ------------------------------------------------------------------------
\* a FailurePattern record: its id, name and category and the number of its
\* indicators
FailurePattern(id, name, category, indicators) ==
    [kind |-> "FailurePattern", id |-> id, name |-> name,
     category |-> category, indicators |-> indicators]

PATTERNS ==
    << FailurePattern("thundering_herd", "Thundering Herd Amplification", "LOAD", 6),
       FailurePattern("hidden_sync_dependency", "Hidden Synchronous Dependency", "DEPENDENCY", 6),
       FailurePattern("load_shedding_blindspot", "Load Shedding Blind Spot", "LOAD", 6),
       FailurePattern("retry_storm", "Retry Storm", "LOAD", 6),
       FailurePattern("partial_outage_inconsistency", "Partial Outage Inconsistency", "DISTRIBUTED", 6),
       FailurePattern("cascading_timeout", "Cascading Timeout", "TIMING", 6),
       FailurePattern("resource_exhaustion", "Resource Exhaustion", "RESOURCE", 6),
       FailurePattern("silent_data_loss", "Silent Data Loss", "DATA", 6),
       FailurePattern("metadata_corruption", "Metadata Corruption", "DATA", 6),
       FailurePattern("clock_skew", "Clock Skew Issues", "TIMING", 6),
       FailurePattern("unbounded_growth", "Unbounded Growth", "RESOURCE", 6),
       FailurePattern("poison_message", "Poison Message", "DATA", 6),
       FailurePattern("hotspot", "Hotspot/Hot Shard", "LOAD", 6),
       FailurePattern("degraded_availability", "Degraded but Not Dead", "DEPENDENCY", 6),
       FailurePattern("version_skew", "Version Skew", "DISTRIBUTED", 6),
       FailurePattern("coordination_overhead", "Coordination Overhead", "DISTRIBUTED", 6),
       FailurePattern("state_explosion", "State Machine Explosion", "DATA", 6) >>

\* get_all_patterns()
get_all_patterns == PATTERNS

\* ------------------------------------------------------------------------
\* app/prompts.py
\* ------------------------------------------------------------------------
PromptLimit == 1000

\* str.replace(old, new): the non-overlapping occurrences of old, from the
\* left, replaced by new; old is not empty
RECURSIVE Replace(_, _, _)
Replace(s, old, new) ==
    LET rest(i) == SubSeq(s, 1, i) \o new
                   \o Replace(SubSeq(s, i + Len(old) + 1, Len(s)), old, new)
        from(at) == IF at = {} THEN s ELSE rest(Min(at))
    IN  from({i \in 0..(Len(s) - Len(old)) : OccursAt(s, old, i)})

\* sanitize_for_prompt(text); the backtick character, which a TLA+ string
\* cannot hold, is written "backtick"
sanitize_for_prompt(text) ==
    Slice(Replace(Replace(Replace(text, <<"backtick", "backtick", "backtick">>, <<>>),
                          <<"I", "g", "n", "o", "r", "e", " ", "p", "r", "e", "v", "i", "o", "u", "s", " ", "i", "n", "s", "t", "r", "u", "c", "t", "i", "o", "n", "s">>, <<>>),
                  <<"I", "g", "n", "o", "r", "e", " ", "a", "l", "l", " ", "p", "r", "e", "v", "i", "o", "u", "s">>, <<>>),
          0, PromptLimit)

\* ------------------------------------------------------------------------
\* app/analyzer.py
\* ------------------------------------------------------------------------
\* DesignAnalyzer.analyze(document, context); generate_json lists what the
\* four self.llm.generate_json calls do, in the order they are made
analyze(self, settings, document, context, generate_json) ==
    LET \* settings.<name>: a field Settings does not declare raises
        \* AttributeError
        GetAttr(name) ==
            IF name \in DOMAIN settings THEN Returned(settings[name])
            ELSE Raised("AttributeError")
        \* the summary of _generate_summary, as its text and the number
        \* it quotes
        Summary(text, count) == [text |-> text, count |-> count]
        \* _match_patterns: everything after the prompt is under
        \* try / except Exception: return []
        findings(outcome, max_failure_modes) ==
            IF outcome.status = "raised" THEN <<>>
            \* matches[:settings.max_failure_modes] raises AttributeError
            ELSE IF max_failure_modes.status = "raised" THEN <<>>
            \* Finding(...) and ConfidenceLevel("high") raise; the sort key
            \* {"high": 3, ...}[f.confidence] raises KeyError for every
            \* member of ConfidenceLevel ("High", "Medium", "Low")
            ELSE <<>>
        \* result.get(key, [])[:5] under try / except: return []
        listed(outcome, key) ==
            IF outcome.status = "raised" THEN <<>>
            ELSE Take(Get(outcome.value, key, <<>>), 5)
        \* _identify_ruled_out_risks: no call when every pattern was found
        ruled_out(found, outcome) ==
            IF \A i \in 1..Len(self.patterns) :
                   \E f \in 1..Len(found) :
                       found[f].pattern_name = self.patterns[i].name
            THEN <<>>
            ELSE listed(outcome, "ruled_out")
        \* _generate_summary: no finding is of high or medium confidence
        \* when there is no finding
        summary(found, assumptions) ==
            IF found = <<>> /\ assumptions = <<>>
            THEN Summary("No significant failure patterns or concerning assumptions identified. Consider running analysis again with more context.", 0)
            ELSE IF assumptions # <<>>
            THEN Summary("Detected {n} implicit assumption(s) that should be validated.",
                         Len(assumptions))
            ELSE Summary("", 0)
        results(found, assumptions) ==
            Returned([failure_modes |-> found,
                      implicit_assumptions |-> assumptions,
                      ruled_out_risks |-> ruled_out(found, generate_json[3]),
                      known_unknowns |-> listed(generate_json[4], "unknowns"),
                      summary |-> summary(found, assumptions)])
        sized(max_document_size) ==
            IF max_document_size.status = "raised" THEN max_document_size
            ELSE IF Len(document) > max_document_size.value THEN Raised("ValueError")
            ELSE results(findings(generate_json[1],
                                  GetAttr("max_failure_modes")),
                         listed(generate_json[2], "assumptions"))
    IN  sized(GetAttr("max_document_size"))

\* ------------------------------------------------------------------------
\* Inputs: the sections, patterns and assumptions analyses are run on
\* ------------------------------------------------------------------------
\* "We use exponential backoff with client-side retry logic; no circuit
\*  breaker is implemented."
BackoffSection ==
    DocumentSection(<<"O", "v", "e", "r", "v", "i", "e", "w">>,
        <<"W", "e", " ", "u", "s", "e", " ", "e", "x", "p", "o", "n", "e", "n", "t", "i", "a", "l", " ", "b", "a", "c", "k", "o", "f", "f", " ", "w", "i", "t", "h", " ", "c", "l", "i", "e", "n", "t", "-", "s", "i", "d", "e", " ", "r", "e", "t", "r", "y", " ", "l", "o", "g", "i", "c", ";", " ", "n", "o", " ", "c", "i", "r", "c", "u", "i", "t", " ", "b", "r", "e", "a", "k", "e", "r", " ", "i", "s", " ", "i", "m", "p", "l", "e", "m", "e", "n", "t", "e", "d", ".">>)

\* "Automatic retry on the Queue with a timeout. Retry logic, retry logic. Timeout, circuit breaker."
QueueSection ==
    DocumentSection(<<"S", "e", "r", "v", "i", "c", "e", " ", "Q", "u", "e", "u", "e">>,
        <<"A", "u", "t", "o", "m", "a", "t", "i", "c", " ", "r", "e", "t", "r", "y", " ", "o", "n", " ", "t", "h", "e", " ", "Q", "u", "e", "u", "e", " ", "w", "i", "t", "h", " ", "a", " ", "t", "i", "m", "e", "o", "u", "t", ".", " ", "R", "e", "t", "r", "y", " ", "l", "o", "g", "i", "c", ",", " ", "r", "e", "t", "r", "y", " ", "l", "o", "g", "i", "c", ".", " ", "T", "i", "m", "e", "o", "u", "t", ",", " ", "c", "i", "r", "c", "u", "i", "t", " ", "b", "r", "e", "a", "k", "e", "r", ".">>)

\* a section of fewer than 10 characters that holds a signal
ShortSection == DocumentSection(<<"N", "o", "t", "e", "s">>, <<"q", "u", "e", "u", "e">>)

\* a section of whitespace only
BlankSection == DocumentSection(<<"B", "l", "a", "n", "k">>, <<" ", "\n", " ">>)

RetryStorm ==
    [id |-> "retry_storm",
     name |-> <<"R", "e", "t", "r", "y", " ", "S", "t", "o", "r", "m">>,
     signals |-> << <<"a", "u", "t", "o", "m", "a", "t", "i", "c", " ", "r", "e", "t", "r", "y">>, <<"r", "e", "t", "r", "y", " ", "l", "o", "g", "i", "c">>, <<"e", "x", "p", "o", "n", "e", "n", "t", "i", "a", "l", " ", "b", "a", "c", "k", "o", "f", "f">> >>,
     safety_signals |-> << <<"c", "i", "r", "c", "u", "i", "t", " ", "b", "r", "e", "a", "k", "e", "r">> >>,
     trigger_conditions |-> <<"retries without budget">>,
     why_subtle |-> <<"added for resilience">>,
     discussion_questions |-> <<"is there a retry budget">>]

\* no safety_signals: the default mitigation list applies
QueueOverload ==
    [id |-> "queue_overload",
     name |-> <<"Q", "u", "e", "u", "e", " ", "O", "v", "e", "r", "l", "o", "a", "d", " ", "B", "a", "c", "k", "o", "f", "f">>,
     signals |-> << <<"q", "u", "e", "u", "e">> >>,
     required_context |-> << <<"q", "u", "e", "u", "e", "_", "d", "e", "p", "t", "h">> >>,
     trigger_conditions |-> <<"producers outpace consumers">>,
     why_subtle |-> <<"fine until full">>,
     discussion_questions |-> <<"is the queue bounded">>]

\* a pattern with no signal
DeadPattern ==
    [id |-> "dead_pattern",
     name |-> <<"D", "e", "a", "d", " ", "Q", "u", "e", "u", "e">>,
     signals |-> <<>>,
     trigger_conditions |-> <<"never">>,
     why_subtle |-> <<"never">>,
     discussion_questions |-> <<"never">>]

\* safety_signals is supplied and empty
BackoffJitter ==
    [id |-> "backoff_jitter",
     name |-> <<"B", "a", "c", "k", "o", "f", "f", " ", "J", "i", "t", "t", "e", "r", " ", "W", "i", "t", "h", "o", "u", "t", " ", "R", "e", "t", "r", "y">>,
     signals |-> << <<"c", "l", "i", "e", "n", "t", "-", "s", "i", "d", "e", " ", "r", "e", "t", "r", "y">>, <<"j", "i", "t", "t", "e", "r">> >>,
     safety_signals |-> <<>>,
     impact_surface |-> <<"Synchronized retries">>,
     trigger_conditions |-> <<"clients retry in step">>,
     why_subtle |-> <<"looks like backoff">>,
     discussion_questions |-> <<"is jitter applied">>]

BackoffAssumption ==
    Assumption(<<"B", "a", "c", "k", "o", "f", "f", " ", "i", "s", " ", "a", "s", "s", "u", "m", "e", "d", " ", "t", "o", " ", "s", "t", "a", "y", " ", "l", "o", "w">>, <<"O", "v", "e", "r", "v", "i", "e", "w">>)

\* longer than the 60 characters quoted in the evidence
RetryAssumption ==
    Assumption(<<"R", "e", "t", "r", "y", " ", "t", "r", "a", "f", "f", "i", "c", " ", "s", "h", "o", "u", "l", "d", " ", "s", "t", "a", "y", " ", "p", "r", "e", "d", "i", "c", "t", "a", "b", "l", "e", " ", "a", "n", "d", " ", "n", "e", "v", "e", "r", " ", "e", "x", "c", "e", "e", "d", " ", "w", "h", "a", "t", " ", "t", "h", "e", " ", "q", "u", "e", "u", "e", " ", "a", "b", "s", "o", "r", "b", "s">>,
               <<"S", "e", "r", "v", "i", "c", "e", " ", "Q", "u", "e", "u", "e">>)

\* the sequences over S of length at most n
SeqsUpTo(S, n) == UNION {[1..k -> S] : k \in 0..n}

\* no element occurs twice
Distinct(s) == \A i, j \in 1..Len(s) : i # j => s[i] # s[j]

\* the documents analysed: sections of the pool, none of them twice
Documents ==
    LET pool == {BackoffSection, QueueSection, ShortSection, BlankSection}
    IN  {d \in SeqsUpTo(pool, MaxSections) : Distinct(d)}

\* pattern ids are unique across a library
Libraries ==
    LET pool == {RetryStorm, QueueOverload, DeadPattern, BackoffJitter}
    IN  {l \in SeqsUpTo(pool, MaxPatterns) :
            \A i, j \in 1..Len(l) : i # j => l[i].id # l[j].id}

\* the assumption lists analysed: assumptions of the pool, none of them twice
AssumptionLists ==
    LET pool == {BackoffAssumption, RetryAssumption}
    IN  {a \in SeqsUpTo(pool, MaxAssumptions) : Distinct(a)}

\* the document text handed to build_report: the sections as markdown
RECURSIVE RawText(_)
RawText(parsed_doc) ==
    IF parsed_doc = <<>> THEN <<>>
    ELSE <<"#", " ">> \o parsed_doc[1].heading \o <<"\n">> \o parsed_doc[1].content
         \o <<"\n">> \o RawText(Tail(parsed_doc))

AllMetadata ==
    [expected_scale_qps |-> "1000",
     expected_data_size |-> "1TB",
     critical_slos_latency |-> "p99 < 100ms",
     critical_slos_availability |-> "99.9",
     known_dependencies |-> "postgres"]

\* the dict submit builds when no form field was filled in
EmptyMetadata ==
    [expected_scale_qps |-> "",
     expected_data_size |-> "",
     critical_slos_latency |-> "",
     critical_slos_availability |-> "",
     known_dependencies |-> ""]

\* the ways build_report is called: as submit calls it, or with the
\* defaults of its signature
ReportCalls(parsed_doc) ==
    {[parsed_doc_text |-> RawText(parsed_doc), pattern_library |-> TRUE,
      contextual_metadata |-> EmptyMetadata],
     [parsed_doc_text |-> RawText(parsed_doc), pattern_library |-> TRUE,
      contextual_metadata |-> AllMetadata],
     [parsed_doc_text |-> <<>>, pattern_library |-> FALSE,
      contextual_metadata |-> NoMetadata]}

\* outcomes of the call_llm of generate_why_this_matters
WhyOutcomes == {LLMFailed, Returned(<<"R", "e", "t", "r", "i", "e", "s", " ", "m", "u", "l", "t", "i", "p", "l", "y", " ", "l", "o", "a", "d", ".">>)}

\* outcomes of the call_llm of determine_ruled_out_risks
RuledOutOutcomes ==
    {LLMFailed,
     Returned(<<"N", "o", "n", "e", " ", "o", "f", " ", "t", "h", "e", "s", "e", " ", "c", "a", "n", " ", "b", "e", " ", "r", "u", "l", "e", "d", " ", "o", "u", "t", ".">>),
     Returned(<<"C", "r", "o", "s", "s", "-", "r", "e", "g", "i", "o", "n", " ", "l", "a", "t", "e", "n", "c", "y", "\n", "N", "e", "t", "w", "o", "r", "k", " ", "s", "a", "t", "u", "r", "a", "t", "i", "o", "n">>),
     Returned(<<"n", "e", "t", "w", "o", "r", "k", " ", "s", "a", "t", "u", "r", "a", "t", "i", "o", "n", ",", " ", "m", "e", "m", "o", "r", "y", " ", "p", "r", "e", "s", "s", "u", "r", "e", ",", " ", "c", "p", "u", " ", "e", "x", "h", "a", "u", "s", "t", "i", "o", "n", ",", " ", "d", "i", "s", "k", " ", "i", "/", "o", " ", "b", "o", "t", "t", "l", "e", "n", "e", "c", "k", "s", ",", " ", "s", "s", "l", "/", "t", "l", "s", " ", "h", "a", "n", "d", "s", "h", "a", "k", "e", " ", "f", "a", "i", "l", "u", "r", "e", "s", ",", " ", "d", "n", "s", " ", "r", "e", "s", "o", "l", "u", "t", "i", "o", "n", " ", "f", "a", "i", "l", "u", "r", "e", "s", ",", " ", "l", "o", "a", "d", " ", "b", "a", "l", "a", "n", "c", "e", "r", " ", "f", "a", "i", "l", "u", "r", "e", "s">>)}

\* ------------------------------------------------------------------------
\* Inputs handed to build_report and detect_unknowns by a caller that holds
\* a list of FailurePatternMatch
\* ------------------------------------------------------------------------
CacheStampede ==
    [id |-> "cache_stampede",
     name |-> <<"C", "a", "c", "h", "e", " ", "S", "t", "a", "m", "p", "e", "d", "e">>,
     signals |-> << <<"c", "a", "c", "h", "e", " ", "e", "x", "p", "i", "r", "y">> >>,
     required_context |-> << <<"c", "a", "c", "h", "e", "_", "t", "t", "l">>, <<"h", "i", "t", "_", "r", "a", "t", "e">>, <<"E", "v", "i", "c", "t", "i", "o", "n">>, <<"w", "a", "r", "m", "u", "p">> >>,
     trigger_conditions |-> <<"keys expire together">>,
     why_subtle |-> <<"caches hide load">>,
     discussion_questions |-> <<"are expiries spread">>]

\* a FailurePatternMatch of a pattern with a confidence and a match_strength
GivenMatch(pattern, confidence, match_strength) ==
    FailurePatternMatch(pattern, confidence, match_strength,
                        <<"Matched signal in section">>, <<"Monitor closely">>)

\* the failure_modes build_report is given: matches of the pool, at most one
\* for a pattern
MatchLists ==
    LET pool == {GivenMatch(RetryStorm, High, Fraction(1, 2)),
                 GivenMatch(CacheStampede, High, Fraction(1, 1)),
                 GivenMatch(QueueOverload, Medium, Fraction(2, 3)),
                 GivenMatch(QueueOverload, Low, Fraction(1, 3)),
                 GivenMatch(BackoffJitter, Low, Fraction(2, 3)),
                 GivenMatch(BackoffJitter, Medium, Fraction(1, 2))}
    IN  {l \in SeqsUpTo(pool, MaxMatches) :
            \A i, j \in 1..Len(l) : i # j => l[i].pattern_id # l[j].pattern_id}

\* "service" without "dependency"
ServiceSection ==
    DocumentSection(<<"S", "e", "r", "v", "i", "c", "e", "s">>, <<"E", "a", "c", "h", " ", "s", "e", "r", "v", "i", "c", "e", " ", "c", "a", "l", "l", "s", " ", "t", "h", "e", " ", "c", "a", "c", "h", "e", " ", "s", "e", "r", "v", "i", "c", "e", ".">>)

\* the documents detect_unknowns is given; two of the sections have
\* "dependency" in the content only, and in the heading and the content
DetectDocuments ==
    LET pool == {QueueSection, ServiceSection,
                 DocumentSection(<<"N", "o", "t", "e", "s">>,
                                 <<"O", "n", "e", " ", "D", "e", "p", "e", "n", "d", "e", "n", "c", "y", " ", "i", "s", " ", "t", "h", "e", " ", "b", "i", "l", "l", "i", "n", "g", " ", "s", "e", "r", "v", "i", "c", "e", ".">>),
                 DocumentSection(<<"D", "e", "p", "e", "n", "d", "e", "n", "c", "y", " ", "L", "i", "s", "t">>,
                                 <<"T", "h", "e", " ", "d", "e", "p", "e", "n", "d", "e", "n", "c", "y", " ", "l", "i", "s", "t", " ", "i", "s", " ", "r", "e", "v", "i", "e", "w", "e", "d", ".">>)}
    IN  {d \in SeqsUpTo(pool, MaxSections) : Distinct(d)}

DetectLibrary == <<RetryStorm, QueueOverload, DeadPattern, CacheStampede, BackoffJitter>>

\* ------------------------------------------------------------------------
\* The analysis of one submission
\* ------------------------------------------------------------------------
VARIABLES
    parsed,      \* the ParsedDocument
    patterns,    \* the FailurePatternLibrary
    assumed,     \* the Assumption list
    pc,          \* "start", "matched", "rematched", "unknowns", "reported";
                 \* "given" when the matches are handed in by the caller
    calls,       \* number of match_patterns calls made
    matched,     \* what the last match_patterns call returned
    earlier,     \* what the match_patterns call before it returned
    scanned,     \* the locals of the pattern loop of the last call
    context,     \* the contextual_metadata of the detect_unknowns call
    detected,    \* the outcome of the detect_unknowns call
    given,       \* the other arguments and the call_llm outcomes of build_report
    assembled,   \* the locals of the build_report call
    report,      \* the outcome of the build_report call
    settings,    \* app.config.settings
    llm,         \* the call_llm call in progress
    extraction,  \* the extract_assumptions call in progress
    app,         \* the application: down, serving or exited
    request,     \* the submit call in progress and its response
    analyzer,    \* the DesignAnalyzer of app/app.py and its analyze call
    prompt       \* the text given to sanitize_for_prompt and its result

vars == <<parsed, patterns, assumed, pc, calls, matched, earlier, scanned,
          context, detected, given, assembled, report, settings, llm,
          extraction, app, request, analyzer, prompt>>

inputs == <<parsed, patterns, assumed>>

\* the variables of the analysis of a submission that the loop of a single
\* call_llm call leaves alone
analysis == <<parsed, patterns, assumed, pc, calls, matched, earlier, scanned,
              context, detected, given, assembled, report, extraction, app,
              request, analyzer, prompt>>

\* the variables that the analysis of a submission leaves alone
others == <<settings, llm, extraction, app, request, analyzer, prompt>>

Idle ==
    /\ settings = Settings("llama3", 3, "valid")
    /\ llm = NotStarted
    /\ extraction = NotCalled
    /\ app = Down
    /\ request = NotCalled
    /\ analyzer = NotCalled
    /\ prompt = NotCalled

Init ==
    /\ parsed \in Documents
    /\ patterns \in Libraries
    /\ assumed \in AssumptionLists
    /\ pc = "start"
    /\ calls = 0
    /\ matched = <<>>
    /\ earlier = <<>>
    /\ scanned = <<>>
    /\ context = NoMetadata
    /\ detected = NotCalled
    /\ given = NotCalled
    /\ assembled = NotCalled
    /\ report = NotCalled
    /\ Idle

\* matches = match_patterns(parsed, patterns, assumptions), a first and a
\* second time on the same arguments
MatchPatterns ==
    /\ pc \in {"start", "matched"}
    /\ calls < MaxRuns
    /\ calls' = calls + 1
    /\ earlier' = matched
    /\ scanned' = ScannedLocals(parsed, patterns, assumed)
    /\ matched' = Matches(patterns, scanned', calls + 1)
    /\ pc' = IF pc = "start" THEN "matched" ELSE "rematched"
    /\ UNCHANGED <<inputs, context, detected, given, assembled, report, others>>

\* detect_unknowns(parsed, matches, patterns, contextual_metadata)
DetectUnknowns ==
    /\ pc \in {"matched", "given"}
    /\ \E contextual_metadata \in {NoMetadata, EmptyMetadata, AllMetadata} :
           /\ context' = contextual_metadata
           /\ detected' = detect_unknowns(parsed, matched, patterns,
                                          contextual_metadata)
    /\ pc' = "unknowns"
    /\ UNCHANGED <<inputs, calls, matched, earlier, scanned, given, assembled,
                   report, others>>

\* report = build_report(matches, assumptions, parsed, ...)
BuildReport ==
    /\ pc \in {"matched", "given"}
    /\ \E call \in ReportCalls(parsed), llm_why \in WhyOutcomes,
          llm_ruled_out \in RuledOutOutcomes :
           /\ given' = [status |-> "called", call |-> call,
                        llm_why |-> llm_why, llm_ruled_out |-> llm_ruled_out]
           /\ assembled' = ReportLocals(matched, llm_why, call.parsed_doc_text,
                                        llm_ruled_out)
           /\ report' = build_report(matched, assumed, parsed, patterns, call,
                                     llm_why, llm_ruled_out)
    /\ pc' = "reported"
    /\ UNCHANGED <<inputs, calls, matched, earlier, scanned, context, detected,
                   others>>

Next == MatchPatterns \/ DetectUnknowns \/ BuildReport

Spec == Init /\ [][Next]_vars

\* the matching engine and the unknowns detector on their own
MatchingNext == MatchPatterns \/ DetectUnknowns

Matching == Init /\ [][MatchingNext]_vars


\* build_report on a list of FailurePatternMatch
ReportingInit ==
    /\ parsed \in {<<>>, <<QueueSection>>}
    /\ patterns = <<RetryStorm, QueueOverload, BackoffJitter, CacheStampede>>
    /\ assumed = <<>>
    /\ pc = "given"
    /\ calls = 0
    /\ matched \in MatchLists
    /\ earlier = <<>>
    /\ scanned = <<>>
    /\ context = NoMetadata
    /\ detected = NotCalled
    /\ given = NotCalled
    /\ assembled = NotCalled
    /\ report = NotCalled
    /\ Idle

Reporting == ReportingInit /\ [][BuildReport]_vars

\* detect_unknowns on a document, a library and matches of some of its
\* patterns
DetectingInit ==
    /\ parsed \in DetectDocuments
    /\ patterns \in {SubSeq(DetectLibrary, 1, n) :
                       n \in 0..MinOf(MaxLibrary, Len(DetectLibrary))}
    /\ assumed = <<>>
    /\ pc = "given"
    /\ calls = 0
    /\ matched \in {ListOf([i \in 1..Len(ks) |->
                               GivenMatch(patterns[ks[i]], Medium, Fraction(1, 2))]) :
                       ks \in {Ascending(S) : S \in SUBSET (1..Len(patterns))}}
    /\ earlier = <<>>
    /\ scanned = <<>>
    /\ context = NoMetadata
    /\ detected = NotCalled
    /\ given = NotCalled
    /\ assembled = NotCalled
    /\ report = NotCalled
    /\ Idle

Detecting == DetectingInit /\ [][DetectUnknowns]_vars

\* the analysis part of the state when only call_llm runs
NoAnalysis ==
    /\ parsed = <<>>
    /\ patterns = <<>>
    /\ assumed = <<>>
    /\ pc = "start"
    /\ calls = 0
    /\ matched = <<>>
    /\ earlier = <<>>
    /\ scanned = <<>>
    /\ context = NoMetadata
    /\ detected = NotCalled
    /\ given = NotCalled
    /\ assembled = NotCalled
    /\ report = NotCalled
    /\ extraction = NotCalled
    /\ app = Down
    /\ request = NotCalled

\* call_llm in an installation with or without a model name, and with some
\* number of attempts allowed
CallingInit ==
    /\ NoAnalysis
    /\ settings \in {Settings(ollama_model_name, llm_max_retries, "valid") :
                       ollama_model_name \in {"", "llama3"},
                       llm_max_retries \in 1..MaxRetries}
    /\ llm = NotStarted
    /\ analyzer = NotCalled
    /\ prompt = NotCalled

\* call_llm(prompt) is called: the first attempt is about to run
CallLLM ==
    /\ llm.pc = "idle"
    /\ llm' = [llm EXCEPT !.pc = "attempting", !.attempt_number = 1]
    /\ UNCHANGED <<analysis, settings>>

\* one attempt of call_llm and the decision of the retry loop; llm.invoke
\* returns a response or raises an exception of one of these types
Attempt ==
    /\ llm.pc = "attempting"
    /\ \E invoke \in {Returned(<<" ", "T", "r", "a", "f", "f", "i", "c", " ", "i", "s", " ", "a", "s", "s", "u", "m", "e", "d", " ", "t", "o", " ", "s", "t", "a", "y", " ", "s", "t", "a", "b", "l", "e", ".", "\n">>),
                      Raised("ConnectionError"), Raised("TimeoutError"),
                      Raised("ValueError")} :
           llm' = AfterAttempt(llm, settings, CallBody(settings, invoke))
    /\ UNCHANGED <<analysis, settings>>

\* the wait between two attempts
Sleep ==
    /\ llm.pc = "sleeping"
    /\ llm' = AfterSleep(llm)
    /\ UNCHANGED <<analysis, settings>>

CallingNext == CallLLM \/ Attempt \/ Sleep

Calling == CallingInit /\ [][CallingNext]_vars

\* call_llm runs on: an attempt ends, by a response or by an exception
\* (ChatOllama is given timeout=settings.ollama_timeout), and a wait is of at
\* most llm_retry_delay_max seconds
CallingFair == Calling /\ WF_vars(CallingNext)

\* the documents extract_assumptions is given. The sections: one with
\* "should"; one with "stays" and "low" on one line, "load" and "stays" on
\* two; one with "remains" and "stable" on two lines, which is no modal
\* language; one of more than 200 characters without modal language
ExtractDocuments ==
    LET pool ==
            {DocumentSection(<<"T", "r", "a", "f", "f", "i", "c">>, <<"T", "r", "a", "f", "f", "i", "c", " ", "s", "h", "o", "u", "l", "d", " ", "s", "t", "a", "y", " ", "f", "l", "a", "t", ".">>),
             DocumentSection(<<"L", "o", "a", "d">>, <<"T", "h", "e", " ", "l", "o", "a", "d", "\n", "s", "t", "a", "y", "s", " ", "l", "o", "w", ".">>),
             DocumentSection(<<"L", "a", "t", "e", "n", "c", "y">>, <<"L", "a", "t", "e", "n", "c", "y", " ", "r", "e", "m", "a", "i", "n", "s", "\n", "s", "t", "a", "b", "l", "e", ".">>),
             DocumentSection(<<"R", "e", "t", "r", "i", "e", "s">>,
                 <<"R", "e", "t", "r", "y", " ", "l", "o", "g", "i", "c", ",", " ", "r", "e", "t", "r", "y", " ", "l", "o", "g", "i", "c", ",", " ", "r", "e", "t", "r", "y", " ", "l", "o", "g", "i", "c", ",", " ", "r", "e", "t", "r", "y", " ", "l", "o", "g", "i", "c", ",", " ", "r", "e", "t", "r", "y", " ", "l", "o", "g", "i", "c", ",", " ", "r", "e", "t", "r", "y", " ", "l", "o", "g", "i", "c", ",", " ", "r", "e", "t", "r", "y", " ", "l", "o", "g", "i", "c", ",", " ", "r", "e", "t", "r", "y", " ", "l", "o", "g", "i", "c", ",", " ", "r", "e", "t", "r", "y", " ", "l", "o", "g", "i", "c", ",", " ", "r", "e", "t", "r", "y", " ", "l", "o", "g", "i", "c", ",", " ", "r", "e", "t", "r", "y", " ", "l", "o", "g", "i", "c", ",", " ", "r", "e", "t", "r", "y", " ", "l", "o", "g", "i", "c", ",", " ", "r", "e", "t", "r", "y", " ", "l", "o", "g", "i", "c", ",", " ", "r", "e", "t", "r", "y", " ", "l", "o", "g", "i", "c", ",", " ", "r", "e", "t", "r", "y", " ", "l", "o", "g", "i", "c", ",", " ", "r", "e", "t", "r", "y", ".">>)}
    IN  {d \in SeqsUpTo(pool, MaxSections) : Distinct(d)}

ExtractingInit ==
    /\ parsed \in ExtractDocuments
    /\ patterns = <<>>
    /\ assumed = <<>>
    /\ pc = "start"
    /\ calls = 0
    /\ matched = <<>>
    /\ earlier = <<>>
    /\ scanned = <<>>
    /\ context = NoMetadata
    /\ detected = NotCalled
    /\ given = NotCalled
    /\ assembled = NotCalled
    /\ report = NotCalled
    /\ settings = Settings("llama3", 3, "valid")
    /\ llm = NotStarted
    /\ extraction = Looping(1, <<>>, <<>>)
    /\ app = Down
    /\ request = NotCalled
    /\ analyzer = NotCalled
    /\ prompt = NotCalled

\* one iteration of the loop of extract_assumptions; the call of a section
\* that is sent returns a response or raises
ExtractSection ==
    /\ extraction.pc = "looping"
    /\ extraction.k <= Len(parsed)
    /\ \E outcome \in
           {Returned(<<"-", " ", "T", "r", "a", "f", "f", "i", "c", " ", "i", "s", " ", "a", "s", "s", "u", "m", "e", "d", " ", "t", "o", " ", "s", "t", "a", "y", " ", "s", "t", "a", "b", "l", "e", "\n", "2", ".", " ", "L", "o", "a", "d", " ", "r", "e", "m", "a", "i", "n", "s", " ", "l", "o", "w", " ", "u", "n", "d", "e", "r", " ", "p", "e", "a", "k", "\n", "N", "o", "n", "e", "\n", "s", "h", "o", "r", "t", "\n", "E", "r", "r", "o", "r", ":", " ", "f", "a", "i", "l", "e", "d", "\n", "*", " ", "o", "k", " ", "t", "h", "e", "n", "\n">>),
            Returned(<<"n", "o", "n", "e">>),
            Raised("LLMError"),
            Raised("Exception")} :
           extraction' = AfterSection(extraction, parsed[extraction.k], outcome)
    /\ UNCHANGED <<inputs, pc, calls, matched, earlier, scanned, context, detected,
                   given, assembled, report, settings, llm, app, request,
                   analyzer, prompt>>

\* return assumptions
ExtractReturn ==
    /\ extraction.pc = "looping"
    /\ extraction.k > Len(parsed)
    /\ extraction' = [extraction EXCEPT !.pc = "returned"]
    /\ assumed' = extraction.assumptions
    /\ UNCHANGED <<parsed, patterns, pc, calls, matched, earlier, scanned, context,
                   detected, given, assembled, report, settings, llm, app, request,
                   analyzer, prompt>>

ExtractingNext == ExtractSection \/ ExtractReturn

Extracting == ExtractingInit /\ [][ExtractingNext]_vars

\* ------------------------------------------------------------------------
\* The application: its startup event, then one submission
\* ------------------------------------------------------------------------
\* parse_document(full_document): the sections of document_text, then the
\* section of metadata_section (lines 145-155) when the form fields were
\* filled in; the lines before that heading make an Overview section when
\* document_text is empty
ServedDocuments(document_text, contextual_metadata) ==
    LET bodies == IF document_text.stripped = 0 THEN {<<>>}
                  ELSE {<<QueueSection>>, <<BackoffSection>>, <<ShortSection>>}
        MetadataSection ==
            DocumentSection(<<"C", "o", "n", "t", "e", "x", "t", "u", "a", "l", " ", "M", "e", "t", "a", "d", "a", "t", "a">>,
                            <<"E", "x", "p", "e", "c", "t", "e", "d", " ", "S", "c", "a", "l", "e", " ", "(", "Q", "P", "S", ")", ":", " ", "1", "0", "0", "0", "\n", "E", "x", "p", "e", "c", "t", "e", "d", " ", "D", "a", "t", "a", " ", "S", "i", "z", "e", ":", " ", "1", "T", "B", "\n", "C", "r", "i", "t", "i", "c", "a", "l", " ", "S", "L", "O", "s", " ", "(", "L", "a", "t", "e", "n", "c", "y", ")", ":", " ", "p", "9", "9", " ", "<", " ", "1", "0", "0", "m", "s", "\n", "C", "r", "i", "t", "i", "c", "a", "l", " ", "S", "L", "O", "s", " ", "(", "A", "v", "a", "i", "l", "a", "b", "i", "l", "i", "t", "y", ")", ":", " ", "9", "9", ".", "9", "\n", "K", "n", "o", "w", "n", " ", "D", "e", "p", "e", "n", "d", "e", "n", "c", "i", "e", "s", ":", " ", "p", "o", "s", "t", "g", "r", "e", "s">>)
    IN  IF contextual_metadata = EmptyMetadata THEN bodies
        ELSE {(IF body = <<>> THEN <<DocumentSection(<<"O", "v", "e", "r", "v", "i", "e", "w">>, <<>>)>>
               ELSE body) \o <<MetadataSection>> : body \in bodies}

\* the application in an installation with or without a model name, whose
\* pattern library file is valid, missing or malformed
ServingInit ==
    /\ NoAnalysis
    /\ settings \in {Settings(ollama_model_name, 3, pattern_library) :
                       ollama_model_name \in {"", "llama3"},
                       pattern_library \in {"valid", "missing", "malformed"}}
    /\ llm = NotStarted
    /\ analyzer = NotCalled
    /\ prompt = NotCalled

\* the startup event: validate_config(); an exception of the startup handler
\* ends the process, otherwise the routes are served
Startup ==
    /\ app = Down
    /\ app' = IF validate_config(settings).status = "raised"
              THEN [status |-> "exited", error |-> validate_config(settings).error]
              ELSE [status |-> "serving"]
    /\ UNCHANGED <<inputs, pc, calls, matched, earlier, scanned, context, detected,
                   given, assembled, report, settings, llm, extraction, request,
                   analyzer, prompt>>

\* submit is called with its form fields and the library of
\* get_pattern_library(), and runs to its first response or to the
\* processing step
Submit ==
    /\ app.status = "serving"
    /\ request = NotCalled
    /\ analyzer = NotCalled
    /\ prompt = NotCalled
    /\ \E document \in {None, Text(0, 0), Text(3, 0), Text(1200, 1190),
                         Text(MaxDocumentLength + 1, MaxDocumentLength + 1)},
          file \in {None,
                    UploadFile(<< <<>> >>, 0, Text(0, 0)),
                    UploadFile(<<<<"d", "e", "s", "i", "g", "n">>, <<"M", "D">>>>, 2048, Text(2048, 2040)),
                    UploadFile(<<<<"d", "e", "s", "i", "g", "n">>, <<"v", "2">>, <<"p", "d", "f">>>>, 2048,
                               Text(2048, 2040)),
                    UploadFile(<<<<"R", "E", "A", "D", "M", "E">>>>, 2048, Text(2048, 2040)),
                    UploadFile(<<<<"d", "u", "m", "p">>, <<"t", "x", "t">>>>, MaxFileSize + 1,
                               Text(MaxFileSize + 1, MaxFileSize)),
                    UploadFile(<<<<"b", "l", "a", "n", "k">>, <<"m", "d">>>>, 2, Text(2, 0))},
          contextual_metadata \in {EmptyMetadata, AllMetadata} :
           request' = Received(Submitted(document, file, contextual_metadata))
    /\ patterns' = <<RetryStorm, QueueOverload>>
    /\ UNCHANGED <<parsed, assumed, pc, calls, matched, earlier, scanned, context,
                   detected, given, assembled, report, settings, llm, extraction,
                   app, analyzer,
                   prompt>>

\* parsed, assumptions, matches = await asyncio.wait_for(
\* _process_document(...), timeout) and the handlers of lines 164-185 and
\* 253-263; seconds is the time the step takes. Within the timeout wait_for
\* gives the coroutine's outcome; past it wait_for raises TimeoutError when
\* the coroutine is suspended at the deadline (in the thread of an LLM call),
\* and gives its outcome when it runs synchronous code through the deadline
Process ==
    /\ request.status = "processing"
    /\ \E seconds \in {1, ApiRequestTimeout + 1},
          parsed_doc \in ServedDocuments(request.document_text,
                                         request.contextual_metadata),
          assumptions \in {<<>>, <<BackoffAssumption>>} :
           LET processed ==
                   Returned([parsed |-> parsed_doc, assumptions |-> assumptions,
                             matches |-> match_patterns(parsed_doc, patterns,
                                                        assumptions, 1)])
               failure(error) ==
                   IF error = "TimeoutError"
                   THEN ErrorResponse(
                            <<"R", "e", "q", "u", "e", "s", "t", " ", "t", "i", "m", "e", "o", "u", "t", ".", " ", "T", "h", "e", " ", "d", "o", "c", "u", "m", "e", "n", "t", " ", "m", "a", "y", " ", "b", "e", " ", "t", "o", "o", " ", "l", "a", "r", "g", "e", " ", "o", "r", " ", "p", "r", "o", "c", "e", "s", "s", "i", "n", "g", " ", "t", "o", "o", "k", " ", "t", "o", "o", " ", "l", "o", "n", "g", ".">>)
                   ELSE IF error \in {"ValueError", "AttributeError"}
                   THEN ErrorResponse(<<"E", "r", "r", "o", "r", " ", "p", "r", "o", "c", "e", "s", "s", "i", "n", "g", " ", "d", "o", "c", "u", "m", "e", "n", "t", ":", " ">>)
                   ELSE ErrorResponse(
                            <<"A", "n", " ", "u", "n", "e", "x", "p", "e", "c", "t", "e", "d", " ", "e", "r", "r", "o", "r", " ", "o", "c", "c", "u", "r", "r", "e", "d", ".", " ", "P", "l", "e", "a", "s", "e", " ", "t", "r", "y", " ", "a", "g", "a", "i", "n", ".">>)
           IN  \E outcome \in IF seconds <= ApiRequestTimeout THEN {processed}
                               ELSE {Raised("TimeoutError"), processed} :
                   IF outcome.status = "raised"
                   THEN /\ request' =
                               Responded([request EXCEPT !.processing = seconds],
                                         failure(outcome.error))
                        /\ UNCHANGED <<parsed, assumed, matched, pc, calls>>
                   ELSE /\ request' = [request EXCEPT !.status = "building",
                                                      !.processing = seconds]
                        /\ parsed' = outcome.value.parsed
                        /\ assumed' = outcome.value.assumptions
                        /\ matched' = outcome.value.matches
                        /\ calls' = 1
                        /\ pc' = "given"
    /\ UNCHANGED <<patterns, earlier, scanned, context, detected, given, assembled,
                   report, settings, llm, extraction, app, analyzer,
                   prompt>>

\* report = await asyncio.wait_for(build_report(...)), and the response
Build ==
    /\ request.status = "building"
    /\ \E seconds \in {1, ApiRequestTimeout + 1}, llm_why \in WhyOutcomes,
          llm_ruled_out \in RuledOutOutcomes :
           LET call == [parsed_doc_text |-> RawText(parsed), pattern_library |-> TRUE,
                        contextual_metadata |-> request.contextual_metadata]
           IN  /\ given' = [status |-> "called", call |-> call,
                            llm_why |-> llm_why, llm_ruled_out |-> llm_ruled_out]
               /\ assembled' = ReportLocals(matched, llm_why, call.parsed_doc_text,
                                        llm_ruled_out)
               /\ report' = build_report(matched, assumed, parsed, patterns, call,
                                         llm_why, llm_ruled_out)
               /\ request' = Responded([request EXCEPT !.building = seconds],
                                       ReportResponse(AwaitReport(report')))
    /\ pc' = "reported"
    /\ UNCHANGED <<inputs, calls, matched, earlier, scanned, context, detected,
                   settings, llm, extraction, app, analyzer,
                   prompt>>

ServingNext == Startup \/ Submit \/ Process \/ Build

Serving == ServingInit /\ [][ServingNext]_vars


\* ------------------------------------------------------------------------
\* app/app.py: the design analyzer and its analyze call
\* ------------------------------------------------------------------------
\* analyzer = DesignAnalyzer(): self.patterns is loaded and no analyze call
\* is made yet; settings is the object of app/config.py
AnalysingInit ==
    /\ NoAnalysis
    /\ settings = Settings("llama3", 3, "valid")
    /\ llm = NotStarted
    /\ analyzer = [patterns |-> get_all_patterns, call |-> NotCalled,
                   result |-> NotCalled]
    /\ prompt = NotCalled

\* results = await analyzer.analyze(document, context); each of the four
\* generate_json calls raises or returns a dict: one without the key read,
\* or one with lists of no or of MaxListed entries
Analyze ==
    /\ analyzer.result = NotCalled
    /\ \E document \in {<<>>, BackoffSection.content},
          analysis_context \in {None, EmptyMetadata},
          generate_json \in
              [1..4 -> {Raised("Exception"), Returned([detail |-> <<>>])}
                       \cup {Returned([matches |-> <<>>,
                                       assumptions |-> ListOf([i \in 1..n |-> i]),
                                       ruled_out |-> ListOf([i \in 1..n |-> i]),
                                       unknowns |-> ListOf([i \in 1..n |-> i])]) :
                                n \in {0, MaxListed}}] :
           analyzer' = [analyzer EXCEPT
                            !.call = [document |-> document,
                                      context |-> analysis_context,
                                      generate_json |-> generate_json],
                            !.result = analyze(analyzer, settings, document,
                                               analysis_context, generate_json)]
    /\ UNCHANGED <<inputs, pc, calls, matched, earlier, scanned, context, detected,
                   given, assembled, report, settings, llm, extraction, app, request,
                   prompt>>

Analysing == AnalysingInit /\ [][Analyze]_vars

\* ------------------------------------------------------------------------
\* app/prompts.py: the section content given to the extraction prompt
\* ------------------------------------------------------------------------
\* section_content: up to MaxChunks pieces, each a run of backticks, one of
\* the removed phrases or a part of one, or 999 other characters
PromptingInit ==
    /\ NoAnalysis
    /\ settings = Settings("llama3", 3, "valid")
    /\ llm = NotStarted
    /\ analyzer = NotCalled
    /\ \E chunks \in SeqsUpTo({ <<"backtick">>, <<"backtick", "backtick">>, <<"I", "g", "n", "o", "r", "e", " ", "a", "l", "l", " ", "p", "r", "e", "v", "i", "o", "u", "s">>,
                               <<"I", "g", "n", "o", "r", "e", " ", "p", "r", "e", "v", "i", "o", "u", "s", " ", "i", "n", "s", "t", "r", "u", "c", "t", "i", "o", "n", "s">>, <<"I", "g", "n", "o", "r", "e", " ">>,
                               <<"p", "r", "e", "v", "i", "o", "u", "s", " ", "i", "n", "s", "t", "r", "u", "c", "t", "i", "o", "n", "s">>,
                               ListOf([i \in 1..999 |-> "x"]) }, MaxChunks) :
           prompt = [status |-> "given", text |-> Join(<<>>, chunks)]

\* content_snippet = sanitize_for_prompt(section_content)
GetPrompt ==
    /\ prompt.status = "given"
    /\ prompt' = [status |-> "sanitized", text |-> prompt.text,
                  content_snippet |-> sanitize_for_prompt(prompt.text)]
    /\ UNCHANGED <<inputs, pc, calls, matched, earlier, scanned, context, detected,
                   given, assembled, report, settings, llm, extraction, app, request,
                   analyzer>>

Prompting == PromptingInit /\ [][GetPrompt]_vars

\* ------------------------------------------------------------------------
\* Properties of the matching engine and of the report assembler
\* ------------------------------------------------------------------------
\* the iterations of the pattern loop that counted at least one signal hit
Scored == {k \in 1..Len(scanned) : scanned[k].score > 0}

\* the document is short-circuited: no sections, or the joined and trimmed
\* contents are shorter than 10 characters
ShortCircuited == parsed = <<>> \/ Len(Strip(FullText(parsed))) < 10

\* the FailurePatternMatch entries of a result that carry a pattern's id
Reported(result, pattern) ==
    LET carries(m) == IsFPM(m) /\ m.pattern_id = pattern.id
    IN  SelectSeq(result, carries)

\* some signal of the pattern occurs in some section
Occurs(pattern, parsed_doc) ==
    \E s \in 1..Len(pattern.signals), i \in 1..Len(parsed_doc) :
        ReSearch(Lower(pattern.signals[s]), Lower(parsed_doc[i].content))

\* low < medium < high
Rank(confidence) ==
    IF confidence = High THEN 3 ELSE IF confidence = Medium THEN 2 ELSE 1

\* C1: for a document that is not short-circuited, match_patterns returns
\* exactly one FailurePatternMatch for each library pattern with score > 0,
\* carrying that pattern's id, and the returned list holds nothing else.
C1_OneMatchPerScoredPattern ==
    pc # "start" /\ ~ShortCircuited =>
        /\ \A i \in 1..Len(matched) :
               /\ IsFPM(matched[i])
               /\ \E k \in Scored : scanned[k].pattern_id = matched[i].pattern_id
        /\ \A k \in Scored :
               Cardinality({i \in 1..Len(matched) :
                   /\ IsFPM(matched[i])
                   /\ matched[i].pattern_id = scanned[k].pattern_id}) = 1

\* C2: what match_patterns reports for a pattern (whether it is present,
\* its confidence, match_strength and evidence) is what it reports for that
\* pattern alone: the other patterns of the library do not change it.
C2_IndependentOfOtherPatterns ==
    pc = "matched" =>
        \A k \in 1..Len(patterns) :
            Reported(matched, patterns[k])
                = Reported(match_patterns(parsed, <<patterns[k]>>, assumed, calls),
                           patterns[k])

\* C3: on the one-section document "We use exponential backoff with
\* client-side retry logic; no circuit breaker is implemented." with
\* retry_storm, match_patterns reports retry_storm, subtracts no mitigation
\* penalty and adds no "Mitigation detected" line for "circuit breaker".
C3_NegatedMitigationNotPenalised ==
    pc = "matched" /\ parsed = <<BackoffSection>> /\ patterns = <<RetryStorm>> =>
        /\ Reported(matched, RetryStorm) # <<>>
        /\ scanned[1].mitigation_penalty = 0
        /\ \A e \in 1..Len(scanned[1].evidence) :
               ~ /\ scanned[1].evidence[e].line = "Mitigation"
                 /\ scanned[1].evidence[e].mitigation = <<"c", "i", "r", "c", "u", "i", "t", " ", "b", "r", "e", "a", "k", "e", "r">>

\* C4: for every pattern with at least one signal hit the final score is
\* never below 1, whatever the assumption bonus and the mitigation penalty.
C4_FinalScoreAtLeastOne ==
    \A k \in Scored : scanned[k].final_score >= 1 * ScoreUnit

\* a scored pattern whose score + bonus - penalty is below 1, with two or
\* more mitigation phrases detected, and whose final score is 1
C4_FloorApplied ==
    \E k \in Scored :
        /\ scanned[k].mitigation_penalty >= 2 * MitigationDecrement
        /\ scanned[k].score * ScoreUnit + scanned[k].assumption_bonus
               - scanned[k].mitigation_penalty < 1 * ScoreUnit
        /\ scanned[k].final_score = 1 * ScoreUnit
        /\ Reported(matched, patterns[k]) # <<>>

\* C5: the confidence of every match is high iff the final score is >= 3;
\* otherwise medium iff the final score is >= 2 or the assumption bonus is
\* positive; otherwise low. A match with a positive bonus is never low.
C5_ConfidenceTiers ==
    /\ \A k \in Scored :
           /\ scanned[k].confidence = High
                  <=> scanned[k].final_score >= 3 * ScoreUnit
           /\ scanned[k].final_score < 3 * ScoreUnit =>
                  (scanned[k].confidence = Medium
                       <=> \/ scanned[k].final_score >= 2 * ScoreUnit
                           \/ scanned[k].assumption_bonus > 0)
           /\ scanned[k].confidence \in {High, Medium, Low}
           /\ scanned[k].assumption_bonus > 0 => scanned[k].confidence # Low
    /\ \A i \in 1..Len(matched) :
           IsFPM(matched[i]) =>
               \E k \in Scored :
                   /\ scanned[k].pattern_id = matched[i].pattern_id
                   /\ scanned[k].confidence = matched[i].confidence

\* a match that is medium by its assumption bonus alone
C5_MediumByBonus ==
    \E i \in 1..Len(matched), k \in Scored :
        /\ IsFPM(matched[i])
        /\ matched[i].pattern_id = scanned[k].pattern_id
        /\ matched[i].confidence = Medium
        /\ scanned[k].final_score < 2 * ScoreUnit
        /\ scanned[k].assumption_bonus > 0

\* C6 as stated: of any two scored patterns, the one with the larger final
\* score never has a strictly lower confidence tier.
C6_MonotonicInFinalScore ==
    \A i, j \in Scored :
        scanned[i].final_score > scanned[j].final_score =>
            Rank(scanned[i].confidence) >= Rank(scanned[j].confidence)

\* the final scores and assumption bonuses a scored pattern can have
FinalScores == (1 * ScoreUnit)..(5 * ScoreUnit)

Bonuses == {n * AssumptionIncrement : n \in 0..MaxAssumptions}

\* C6: of any two scored patterns, over any documents and assumption
\* lists, the one with the larger final score never has a strictly lower
\* confidence tier, unless the one with the smaller final score has a
\* positive assumption bonus and the one with the larger has none.
C6_MonotonicUnlessBonus ==
    /\ \A i, j \in Scored :
           (/\ scanned[i].final_score > scanned[j].final_score
            /\ ~(scanned[j].assumption_bonus > 0 /\ scanned[i].assumption_bonus = 0))
           => Rank(scanned[i].confidence) >= Rank(scanned[j].confidence)
    /\ \A i \in Scored, final_score \in FinalScores, assumption_bonus \in Bonuses :
           /\ (/\ scanned[i].final_score > final_score
               /\ ~(assumption_bonus > 0 /\ scanned[i].assumption_bonus = 0))
              => Rank(scanned[i].confidence)
                     >= Rank(Confidence(final_score, assumption_bonus))
           /\ (/\ final_score > scanned[i].final_score
               /\ ~(scanned[i].assumption_bonus > 0 /\ assumption_bonus = 0))
              => Rank(Confidence(final_score, assumption_bonus))
                     >= Rank(scanned[i].confidence)

\* two patterns scored in one run, the one with the larger final score in
\* a strictly higher tier
C6_HigherScoreHigherTier ==
    \E i, j \in Scored :
        /\ scanned[i].final_score > scanned[j].final_score
        /\ ~(scanned[j].assumption_bonus > 0 /\ scanned[i].assumption_bonus = 0)
        /\ Rank(scanned[i].confidence) > Rank(scanned[j].confidence)

\* C7: a pattern none of whose signals occurs in any section has no match
\* in the output, whatever the assumptions and the mitigation phrases of
\* the document; so a pattern with no signals never has one.
C7_NoHitNoMatch ==
    pc = "matched" =>
        \A k \in 1..Len(patterns) :
            ~Occurs(patterns[k], parsed) => Reported(matched, patterns[k]) = <<>>

\* match_patterns returned a match, for a library holding a pattern without
\* signals that the assumptions reinforce and the document mitigates
C7_DeadPatternSkipped ==
    /\ pc = "matched"
    /\ \E i \in 1..Len(matched) : IsFPM(matched[i])
    /\ \E k \in 1..Len(patterns) :
           /\ patterns[k].signals = <<>>
           /\ Reinforcement(patterns[k], assumed) # <<>>
           /\ Mitigation(patterns[k], parsed) # <<>>
           /\ Reported(matched, patterns[k]) = <<>>

\* C8: for a document without sections, or whose joined and trimmed
\* contents are shorter than 10 characters, match_patterns returns an empty
\* list without scanning a pattern, and detect_unknowns returns a list.
C8_ShortDocumentShortCircuits ==
    ShortCircuited =>
        /\ pc # "start" => matched = <<>> /\ scanned = <<>>
        /\ pc = "unknowns" => detected.status = "returned"

\* detect_unknowns returned unknowns for a short document that holds a
\* signal of a library pattern
C8_ShortDocumentWithSignal ==
    /\ pc = "unknowns"
    /\ parsed # <<>>
    /\ ShortCircuited
    /\ \E k \in 1..Len(patterns) : Occurs(patterns[k], parsed)
    /\ matched = <<>>
    /\ detected.status = "returned"
    /\ detected.value # <<>>

\* C9: a second match_patterns call on the same document, library and
\* assumptions returns what the first returned, and the sort of
\* build_report orders both results into the same list.
C9_RepeatedRunIdentical ==
    pc = "rematched" =>
        /\ matched = earlier
        /\ sorted_modes(matched).status = "returned"
        /\ sorted_modes(matched) = sorted_modes(earlier)

\* C10: for any list of matches, when every call_llm attempt fails,
\* build_report returns a SecondOpinionReport whose summary is a string,
\* whose ruled_out is empty and whose failure_modes are the matches.
C10_ReportWithoutNarrative ==
    (/\ pc = "reported"
     /\ given.llm_why = LLMFailed
     /\ given.llm_ruled_out = LLMFailed
     /\ \A i \in 1..Len(matched) : IsFPM(matched[i]))
    => /\ report.status = "returned"
       /\ report.value.summary.type = "str"
       /\ report.value.ruled_out = <<>>
       /\ Len(report.value.failure_modes) = Len(matched)

\* C11: when build_report has a primary concern and the call_llm of the
\* explanation fails, why_this_matters is a sentence that holds the name of
\* the primary concern.
C11_TemplatedFallback ==
    (/\ pc = "reported"
     /\ assembled.status = "ranked"
     /\ assembled.primary # None
     /\ given.llm_why = LLMFailed)
    => /\ assembled.why_matters.type = "str"
       /\ Contains(Lower(assembled.why_matters.text), Lower(assembled.primary.text))

\* C12: the sorted failure modes of build_report are the given matches with
\* every high match before every non-high one, matches of the same
\* high/non-high flag in descending match_strength, and of two non-high
\* matches of equal strength the medium one first; primary is the name of
\* the first one, or None without matches; a report that is returned
\* carries both.
C12_HighFirstThenStrength ==
    pc = "reported" /\ assembled.status = "ranked" =>
        LET modes == assembled.sorted_modes
            high(m) == m.confidence = High
        IN  /\ Len(modes) = Len(matched)
            /\ {modes[i] : i \in 1..Len(modes)} = {matched[i] : i \in 1..Len(matched)}
            /\ \A i, j \in 1..Len(modes) :
                   i < j =>
                       /\ high(modes[j]) => high(modes[i])
                       /\ high(modes[i]) = high(modes[j]) =>
                              ~FractionLess(modes[i].match_strength,
                                            modes[j].match_strength)
                       /\ (/\ ~high(modes[i]) /\ ~high(modes[j])
                           /\ modes[i].match_strength = modes[j].match_strength)
                          => ~(modes[i].confidence = Low /\ modes[j].confidence = Medium)
            /\ assembled.primary
                   = IF modes = <<>> THEN None ELSE Str(modes[1].name)
            /\ matched = <<>> => report.status = "returned"
            /\ report.status = "returned" =>
                   /\ report.value.failure_modes = modes
                   /\ report.value.primary_concern = assembled.primary

\* build_report ranked a low match given first behind a medium one of the
\* same strength, and both behind a high match of smaller strength given last
C12_HighOfSmallerStrengthFirst ==
    /\ pc = "reported"
    /\ assembled.status = "ranked"
    /\ Len(matched) = 3
    /\ matched[1].confidence = Low
    /\ matched[2].confidence = Medium
    /\ matched[3].confidence = High
    /\ matched[1].match_strength = matched[2].match_strength
    /\ FractionLess(matched[3].match_strength, matched[2].match_strength)
    /\ assembled.sorted_modes = <<matched[3], matched[2], matched[1]>>
    /\ assembled.primary = Str(matched[3].name)

\* C13: the overall_risk of build_report is high if a match is high, medium
\* if there are matches and none is high, and low iff there is no match; a
\* report that is returned carries it.
C13_OverallRisk ==
    pc = "reported" /\ assembled.status = "ranked" =>
        LET any_high == \E i \in 1..Len(matched) : matched[i].confidence = High
        IN  /\ any_high => assembled.overall_risk = High
            /\ matched # <<>> /\ ~any_high => assembled.overall_risk = Medium
            /\ assembled.overall_risk = Low <=> matched = <<>>
            /\ report.status = "returned" =>
                   report.value.overall_risk = assembled.overall_risk

\* build_report found the overall risk high for matches whose first is not
\* high, and medium for matches that are all low
C13_HighNotFirst ==
    /\ pc = "reported"
    /\ assembled.status = "ranked"
    /\ \/ /\ Len(matched) >= 2
          /\ matched[1].confidence # High
          /\ assembled.overall_risk = High
       \/ /\ matched # <<>>
          /\ \A i \in 1..Len(matched) : matched[i].confidence = Low
          /\ assembled.overall_risk = Medium

\* the checks of detect_unknowns in the order of the code
CheckOrder ==
    <<"scale", "latency", "availability", "region", "observability", "testing",
      "required_context", "related", "dependency", "traffic", "errors">>

CheckRank(check) == CHOOSE k \in 1..Len(CheckOrder) : CheckOrder[k] = check

\* the statements of the detect_unknowns call before the truncation
Produced ==
    UnknownStatements(parsed,
                      {matched[i].pattern_id : i \in 1..Len(matched)},
                      All(patterns), context, FullText(parsed))

\* the statements of one check in what detect_unknowns returned
Appended(check) ==
    {i \in 1..Len(detected.value) : detected.value[i].check = check}

\* C14: detect_unknowns returns at most 10 statements, in the fixed check
\* order, and they are the first 10 (or all, if fewer) of the statements
\* the checks produce.
C14_FirstTenInCheckOrder ==
    pc = "unknowns" /\ detected.status = "returned" =>
        /\ Len(detected.value) <= 10
        /\ \A i, j \in 1..Len(detected.value) :
               i < j => CheckRank(detected.value[i].check)
                            <= CheckRank(detected.value[j].check)
        /\ detected.value = Take(Produced, 10)

\* detect_unknowns returned 10 statements of more than 10 produced, two of
\* them of the required_context check
C14_Truncated ==
    /\ pc = "unknowns"
    /\ detected.status = "returned"
    /\ Len(Produced) > 10
    /\ Len(detected.value) = 10
    /\ Cardinality(Appended("required_context")) = 2
    /\ Appended("errors") = {}

\* C15: when known_dependencies is not supplied and nothing is truncated,
\* detect_unknowns emits the dependency statement exactly when the text
\* mentions "dependency" or "service" and has neither a heading containing
\* "dependency" nor "dependency" in its text; a document whose text
\* contains "dependency" never gets the statement.
C15_DependencyStatement ==
    (/\ pc = "unknowns"
     /\ detected.status = "returned"
     /\ ~Supplied(context, "known_dependencies")
     /\ Len(Produced) <= 10)
    => LET literal == Contains(FullText(parsed), <<"d", "e", "p", "e", "n", "d", "e", "n", "c", "y">>)
           service == Contains(FullText(parsed), <<"s", "e", "r", "v", "i", "c", "e">>)
           headed == \E i \in 1..Len(parsed) :
                         Contains(Lower(parsed[i].heading), <<"d", "e", "p", "e", "n", "d", "e", "n", "c", "y">>)
       IN  /\ Appended("dependency") # {}
                  <=> (literal \/ service) /\ ~headed /\ ~literal
           /\ literal => Appended("dependency") = {}

\* C16 as stated: each check appends at most one statement to the result,
\* and the relevant-but-unmatched statement names at most 3 patterns.
C16_OneStatementPerCheck ==
    pc = "unknowns" /\ detected.status = "returned" =>
        /\ \A k \in 1..Len(CheckOrder) : Cardinality(Appended(CheckOrder[k])) <= 1
        /\ \A i \in Appended("related") : Len(detected.value[i].patterns) <= 3

\* C16: each check other than the required_context check appends at most
\* one statement to the result; the required_context check appends at most
\* one statement for each unmatched pattern of the library, naming at most
\* 3 fields; the relevant-but-unmatched statement names at most 3 patterns.
C16_OneStatementPerCheckOrPattern ==
    pc = "unknowns" /\ detected.status = "returned" =>
        /\ \A k \in 1..Len(CheckOrder) :
               CheckOrder[k] # "required_context" =>
                   Cardinality(Appended(CheckOrder[k])) <= 1
        /\ \A i \in Appended("required_context") :
               /\ Len(detected.value[i].fields) <= 3
               /\ \E k \in 1..Len(patterns) :
                      /\ patterns[k].name = detected.value[i].pattern
                      /\ \A m \in 1..Len(matched) : matched[m].pattern_id # patterns[k].id
               /\ \A j \in Appended("required_context") :
                      i # j => detected.value[i].pattern # detected.value[j].pattern
        /\ \A i \in Appended("related") : Len(detected.value[i].patterns) <= 3

\* detect_unknowns returned one aggregate statement naming 3 patterns where
\* 4 unmatched patterns qualify, and a required_context statement that
\* names 3 of 4 fields
C16_AggregateOfFour ==
    /\ pc = "unknowns"
    /\ detected.status = "returned"
    /\ matched = <<>>
    /\ Len(patterns) = 4
    /\ parsed = <<QueueSection, ServiceSection>>
    /\ \E i \in Appended("related") : Len(detected.value[i].patterns) = 3
    /\ Cardinality(Appended("related")) = 1
    /\ \E i \in Appended("required_context") :
           /\ detected.value[i].pattern = CacheStampede.name
           /\ Len(detected.value[i].fields) = 3

\* the sleeps of the call_llm call so far
Sleeps == {i \in 1..Len(llm.log) : llm.log[i].event = "sleep"}

\* C17: when the model name is not configured, call_llm fails after exactly
\* one attempt, with no backoff wait; and a retry follows only an attempt
\* that failed with a connection error or a timeout.
C17_NoRetryOnValidationFailure ==
    /\ settings.ollama_model_name = "" =>
           /\ llm.attempt_number <= 1
           /\ Sleeps = {}
           /\ llm.pc # "sleeping"
           /\ llm.log # <<>> => llm.pc = "done" /\ llm.result.status = "raised"
    /\ \A i \in Sleeps :
           llm.log[i - 1].outcome.error.cause \in {"ConnectionError", "TimeoutError"}

\* C18: every response of submit carries a report only if its error is
\* None; and when the processing of the document or the building of the
\* report took longer than api_request_timeout, the response carries an error
\* message and no report.
C18_TimeoutReportedNoPartialReport ==
    request.status = "responded" =>
        /\ request.response.report # None => request.response.error = None
        /\ (\/ request.processing > ApiRequestTimeout
            \/ request.building > ApiRequestTimeout)
           => /\ request.response.error # None
              /\ request.response.report = None

\* submit has responded after build_report returned a report, the processing
\* and the building each having taken longer than the timeout
C18_ReportBuiltPastTimeout ==
    /\ request.status = "responded"
    /\ request.processing > ApiRequestTimeout
    /\ request.building > ApiRequestTimeout
    /\ report.status = "returned"
    /\ request.response.error # None

\* the assumptions of a list that come from the section of a heading
FromSection(assumptions, heading) ==
    LET from(a) == a.source_section = heading
    IN  SelectSeq(assumptions, from)

\* C19: extract_assumptions does not raise; a section whose call fails
\* contributes no assumption, every other section that is sent contributes
\* the assumptions of its response, and the assumptions are in section
\* order.
C19_SectionFailureIsolated ==
    /\ extraction.pc # "raised"
    /\ extraction.pc = "returned" =>
           /\ Len(extraction.log) = Len(parsed)
           /\ \A i \in 1..Len(parsed) :
                  FromSection(assumed, parsed[i].heading)
                      = IF extraction.log[i].status = "returned"
                        THEN ParseResponse(extraction.log[i].value, parsed[i].heading)
                        ELSE <<>>
           /\ \A a, b \in 1..Len(assumed) :
                  a < b =>
                      \A i, j \in 1..Len(parsed) :
                          (/\ assumed[a].source_section = parsed[i].heading
                           /\ assumed[b].source_section = parsed[j].heading)
                          => i <= j

\* extract_assumptions returned the assumptions of the last section after
\* the call of the section before it failed
C19_LaterSectionKept ==
    /\ extraction.pc = "returned"
    /\ Len(parsed) >= 2
    /\ extraction.log[Len(parsed) - 1].status = "raised"
    /\ extraction.log[Len(parsed)].status = "returned"
    /\ FromSection(assumed, parsed[Len(parsed)].heading) # <<>>
    /\ FromSection(assumed, parsed[Len(parsed) - 1].heading) = <<>>

\* C20: when the pattern library path names no file, the startup fails with
\* ConfigurationError and no analysis request is served.
C20_MissingLibraryIsConfigurationError ==
    (settings.pattern_library = "missing" /\ app # Down) =>
        /\ app.status = "exited"
        /\ app.error = "ConfigurationError"
        /\ request = NotCalled

\* ------------------------------------------------------------------------
\* Properties of the scoring steps of the matching engine
\* ------------------------------------------------------------------------
\* the sections (by position) in which a phrase occurs, case-insensitively
\* and on word boundaries
SectionsWith(phrase, parsed_doc) ==
    {i \in 1..Len(parsed_doc) : ReSearch(Lower(phrase), Lower(parsed_doc[i].content))}

\* the evidence lines of one kind, in the order they were appended
LinesOf(evidence, kinds) ==
    LET of_kind(e) == e.line \in kinds
    IN  SelectSeq(evidence, of_kind)

\* C22: a signal adds exactly 1 to a pattern's signal score if it occurs
\* (case-insensitively, on word boundaries) in at least one section and 0
\* otherwise, however often and in however many sections it occurs; the
\* signal score never exceeds the number of signals; every signal that hit
\* adds exactly one evidence line, which cites the first matching section
\* and the number of other matching sections.
C22_SignalCountsOnce ==
    \A k \in 1..Len(scanned) :
        LET signals == patterns[k].signals
            hit == Ascending({s \in 1..Len(signals) :
                                 SectionsWith(signals[s], parsed) # {}})
            lines == LinesOf(scanned[k].evidence, {"Section", "Signal"})
        IN  /\ scanned[k].score = Len(hit)
            /\ scanned[k].score <= Len(signals)
            /\ Len(lines) = Len(hit)
            /\ \A n \in 1..Len(hit) :
                   /\ lines[n].line = "Section"
                   /\ lines[n].section
                          = parsed[Min(SectionsWith(signals[hit[n]], parsed))].heading
                   /\ lines[n].others
                          = Cardinality(SectionsWith(signals[hit[n]], parsed)) - 1

\* a pattern with a signal that occurs in two sections, and twice in
\* one of them, and a pattern of which one signal hit and another did not
C22_SignalInTwoSections ==
    /\ parsed = <<BackoffSection, QueueSection>>
    /\ \E k \in 1..Len(scanned) :
           /\ scanned[k].score = 3
           /\ \E e \in 1..Len(scanned[k].evidence) :
                  /\ scanned[k].evidence[e].line = "Section"
                  /\ scanned[k].evidence[e].others = 1
                  /\ scanned[k].evidence[e].section = <<"O", "v", "e", "r", "v", "i", "e", "w">>
    /\ \E k \in 1..Len(scanned) :
           0 < scanned[k].score /\ scanned[k].score < scanned[k].total_signals

\* the assumptions (by position) whose lowercased text contains at least
\* one of the first three lowercased whitespace tokens of a pattern name
ReinforcedBy(name, assumptions) ==
    LET tokens == Split(name)
    IN  Ascending({a \in 1..Len(assumptions) :
            \E t \in 1..Len(tokens) :
                /\ t <= 3
                /\ Contains(Lower(assumptions[a].text), Lower(tokens[t]))})

\* C23: for a pattern with a positive signal score the assumption bonus is
\* 0.5 times the number of assumptions whose lowercased text contains at
\* least one of the first three lowercased whitespace tokens of the pattern
\* name; each of them appends exactly one evidence line, with its source
\* section and the first 60 characters of its text, and the other
\* assumptions add nothing.
C23_HalfPointPerReinforcingAssumption ==
    \A k \in Scored :
        LET by == ReinforcedBy(patterns[k].name, assumed)
            lines == LinesOf(scanned[k].evidence, {"Reinforced"})
        IN  /\ scanned[k].assumption_bonus * 2 = Len(by) * ScoreUnit
            /\ Len(lines) = Len(by)
            /\ \A n \in 1..Len(by) :
                   /\ lines[n].section = assumed[by[n]].source_section
                   /\ lines[n].text = Take(assumed[by[n]].text, 60)

\* a pattern reinforced by two assumptions, one of them longer than 60
\* characters, and a pattern reinforced by one, the other assumption
\* holding only the fourth token of its name
C23_TwoAssumptionsStack ==
    /\ assumed = <<BackoffAssumption, RetryAssumption>>
    /\ \E k \in Scored :
           /\ scanned[k].pattern_id = "queue_overload"
           /\ scanned[k].assumption_bonus = 2 * AssumptionIncrement
           /\ Len(LinesOf(scanned[k].evidence, {"Reinforced"})[2].text) = 60
    /\ \E k \in Scored :
           /\ scanned[k].pattern_id = "backoff_jitter"
           /\ Contains(Lower(RetryAssumption.text), Lower(Split(patterns[k].name)[4]))
           /\ scanned[k].assumption_bonus = AssumptionIncrement

C25_OwnListReplacesDefault ==
    \A k \in Scored :
        LET lines == LinesOf(scanned[k].evidence, {"Mitigation"})
            own == IF "safety_signals" \in DOMAIN patterns[k]
                   THEN patterns[k].safety_signals
                   ELSE DefaultSafetySignals
        IN  /\ \A n \in 1..Len(lines) :
                   \E m \in 1..Len(own) : own[m] = lines[n].mitigation
            /\ scanned[k].mitigation_penalty
                   = 3 * Cardinality({m \in 1..Len(own) :
                                         SectionsWith(own[m], parsed) # {}})

\* C26: for every reported match, match_strength is the final (floored)
\* score divided by the pattern's total number of signals, clamped to at
\* most 1.0; it lies in (0, 1], and it is 1.0 whenever the final score is
\* at least the number of signals.
C26_StrengthIsClampedRatio ==
    /\ \A k \in Scored :
           LET strength == scanned[k].match_strength
               final_score == scanned[k].final_score
               total == Len(patterns[k].signals) * ScoreUnit
           IN  /\ 0 < strength.num /\ strength.num <= strength.den
               /\ final_score < total =>
                      strength.num * total = strength.den * final_score
               /\ final_score >= total => strength.num = 1 /\ strength.den = 1
    /\ \A i \in 1..Len(matched) :
           IsFPM(matched[i]) =>
               \E k \in Scored :
                   /\ scanned[k].pattern_id = matched[i].pattern_id
                   /\ scanned[k].match_strength = matched[i].match_strength

\* a reported match whose final score exceeds its number of signals, of
\* strength 1.0, next to a scored pattern of strength 1.7 / 3
C26_ClampedAndPartial ==
    /\ \E i \in 1..Len(matched), k \in Scored :
           /\ IsFPM(matched[i])
           /\ scanned[k].pattern_id = matched[i].pattern_id
           /\ scanned[k].final_score > Len(patterns[k].signals) * ScoreUnit
           /\ matched[i].match_strength = [num |-> 1, den |-> 1]
    /\ \E k \in Scored :
           /\ scanned[k].final_score = 17
           /\ scanned[k].match_strength = [num |-> 17, den |-> 30]

\* ------------------------------------------------------------------------
\* Properties of call_llm, determine_ruled_out_risks and the prompts
\* ------------------------------------------------------------------------
\* the attempts of the call_llm call so far
Attempts == {i \in 1..Len(llm.log) : llm.log[i].event = "attempt"}

\* what C27 says of every state of a call_llm call
BoundedAttempts ==
    /\ Cardinality(Attempts) <= settings.llm_max_retries
    /\ \A i \in Attempts :
           llm.log[i].outcome.status = "returned" =>
               /\ i = Len(llm.log)
               /\ llm.pc = "done"
               /\ llm.result = llm.log[i].outcome
    /\ llm.pc = "done" =>
           \/ llm.result.status = "returned"
           \/ /\ llm.result.status = "raised"
              /\ llm.result.error.type = "LLMError"
              /\ \A i \in Attempts : llm.log[i].outcome.status = "raised"

C28_AtMostFiveCommonRisksInOrder ==
    pc = "reported" /\ assembled.status = "ranked" =>
        LET ruled_out == assembled.ruled_out
            at(risk) == {i \in 1..Len(COMMON_RISKS) : COMMON_RISKS[i] = risk}
        IN  /\ ruled_out.status = "returned"
            /\ Len(ruled_out.value) <= 5
            /\ \A n \in 1..Len(ruled_out.value) : at(ruled_out.value[n]) # {}
            /\ \A n, m \in 1..Len(ruled_out.value) :
                   n < m => Min(at(ruled_out.value[n])) < Min(at(ruled_out.value[m]))
            /\ given.call.parsed_doc_text = <<>> => ruled_out.value = <<>>
            /\ given.llm_ruled_out.status = "raised" => ruled_out.value = <<>>

\* the response names seven common risks and the first five of them, in
\* the order of COMMON_RISKS, are returned
C28_SevenNamedFiveReturned ==
    /\ pc = "reported"
    /\ assembled.status = "ranked"
    /\ given.llm_ruled_out.status = "returned"
    /\ Cardinality({i \in 1..Len(COMMON_RISKS) :
           Contains(Lower(given.llm_ruled_out.value), Lower(COMMON_RISKS[i]))}) = 7
    /\ assembled.ruled_out
           = Returned(<<COMMON_RISKS[1], COMMON_RISKS[2], COMMON_RISKS[4],
                        COMMON_RISKS[5], COMMON_RISKS[7]>>)

\* C29: for every input text, the output of sanitize_for_prompt is at most
\* 1000 characters long and contains none of the removed injection
\* patterns: no triple backtick, no "Ignore previous instructions" and no
\* "Ignore all previous".
C29_SanitizedHoldsNoInjectionPattern ==
    prompt.status = "sanitized" =>
        /\ Len(prompt.content_snippet) <= 1000
        /\ ~Contains(prompt.content_snippet, <<"backtick", "backtick", "backtick">>)
        /\ ~Contains(prompt.content_snippet, <<"I", "g", "n", "o", "r", "e", " ", "p", "r", "e", "v", "i", "o", "u", "s", " ", "i", "n", "s", "t", "r", "u", "c", "t", "i", "o", "n", "s">>)
        /\ ~Contains(prompt.content_snippet, <<"I", "g", "n", "o", "r", "e", " ", "a", "l", "l", " ", "p", "r", "e", "v", "i", "o", "u", "s">>)

\* ------------------------------------------------------------------------
\* Properties of the design analyzer and its pattern library
\* ------------------------------------------------------------------------
\* C21: get_all_patterns returns the complete curated library, which holds
\* exactly 16 failure patterns, every one a FailurePattern record with a
\* distinct id.
C21_SixteenPatternsWithDistinctIds ==
    /\ analyzer.patterns = PATTERNS
    /\ Len(analyzer.patterns) = 16
    /\ \A i \in 1..Len(analyzer.patterns) :
           analyzer.patterns[i].kind = "FailurePattern"
    /\ \A i, j \in 1..Len(analyzer.patterns) :
           i # j => analyzer.patterns[i].id # analyzer.patterns[j].id

\* C30: analyze on a document within the size limit never fails because
\* the LLM is unavailable: if every generate_json call fails, it returns a
\* result with all five keys, where failure_modes, implicit_assumptions,
\* ruled_out_risks and known_unknowns are empty lists and summary is the
\* fixed no-findings sentence; and for any LLM responses the three latter
\* lists hold at most 5 entries each.
C30_AnalyzeSurvivesLLMFailure ==
    analyzer.result # NotCalled =>
        /\ analyzer.result.status = "returned"
        /\ DOMAIN analyzer.result.value
               = {"failure_modes", "implicit_assumptions", "ruled_out_risks",
                  "known_unknowns", "summary"}
        /\ (\A n \in 1..4 : analyzer.call.generate_json[n].status = "raised") =>
               /\ analyzer.result.value.failure_modes = <<>>
               /\ analyzer.result.value.implicit_assumptions = <<>>
               /\ analyzer.result.value.ruled_out_risks = <<>>
               /\ analyzer.result.value.known_unknowns = <<>>
               /\ analyzer.result.value.summary.text
                      = "No significant failure patterns or concerning assumptions identified. Consider running analysis again with more context."
        /\ Len(analyzer.result.value.implicit_assumptions) <= 5
        /\ Len(analyzer.result.value.ruled_out_risks) <= 5
        /\ Len(analyzer.result.value.known_unknowns) <= 5
====
